---- MODULE Spec2Model ----
(***************************************************************************)
(* Stream-segment network engine of pfdf (pfdf/segments/_segments.py):     *)
(* the Segments object, its construction from a D8 flow raster and the     *)
(* polylines of watershed.network, the continuity filter, keep / remove,   *)
(* copy, and the cached terminal-basin raster.                             *)
(*                                                                         *)
(* Conventions.  A pixel is <<row, col>>, rows and columns counted from 0. *)
(* A coordinate is <<x, y>> in quarter-pixel units, so the centre of pixel *)
(* <<r, c>> is <<4c+2, 4r+2>> and a split point may fall between centres.  *)
(* Positions in the segment arrays are counted from 1 (a TLA+ sequence);   *)
(* the code's "no segment" sentinel -1 is kept.                            *)
(***************************************************************************)
EXTENDS Integers, Sequences, FiniteSets, TLC

VARIABLES
    net,      \* the (flow, mask, max_length) input the network was built from
    objs,     \* handle -> Segments object (its private attributes), for live objects
    cvar,     \* the handle held by the caller's variable c (0: not assigned)
    arrays,   \* heap of basin-raster arrays: reference -> raster, for live arrays
    lists,    \* heap of the inner (rows, cols) pixel lists of _indices
    par,      \* progress of the call that is running step by step: a parallel
              \* basin build (workers' private buffers) or a graph traversal
    last      \* the latest call: its name, receiver, arguments and result

vars == <<net, objs, cvar, arrays, lists, par, last>>

(***************************************************************************)
(* Bounds of the model.                                                    *)
(***************************************************************************)
\* number of segments of the linear-chain input
ChainLen == 5
\* largest number of worker processes of a parallel basin build
MaxWorkers == 2
\* largest max_length, and pixel diagonal, given to the constructor
MaxLength == 4
\* max_job_time ranges over 15, 20 .. 15 + 5 * JobTimeSteps seconds
JobTimeSteps == 6
\* refresh_rate ranges over 15, 20 .. 15 + 5 * RateSteps seconds
RateSteps == 3
\* most status queries of a job that is allowed any amount of time
MaxQueries == 4
\* longest axis of an array given to validate.matrix
MaxAxis == 3

NoSegment == -1

\* the value of _basins when no basin raster is saved (array references are 1, 2, ...)
None == 0

Range(f) == {f[i] : i \in DOMAIN f}

RECURSIVE SetToSeq(_)
SetToSeq(S) ==
    IF S = {} THEN <<>>
    ELSE LET m == CHOOSE x \in S : \A y \in S : x <= y
         IN <<m>> \o SetToSeq(S \ {m})

\* the subsequence of q at the positions (ascending) not in the set rm
RECURSIVE Dropped(_, _, _)
Dropped(q, rm, k) ==
    IF k > Len(q) THEN <<>>
    ELSE (IF k \in rm THEN <<>> ELSE <<q[k]>>) \o Dropped(q, rm, k + 1)

(***************************************************************************)
(* Inputs: D8 flow-direction rasters and the polylines that                *)
(* watershed.network returns for them.                                     *)
(***************************************************************************)
NetNames == {"chain", "ynest", "split", "tri", "south"}

\* "chain": row 1 is a channel flowing east, split by max_length into
\* ChainLen pieces of two pixels each; row 0 is a hillslope draining south
\* into the channel.  The last channel pixel is outside the mask.
\* "ynest": two arms (segments 2 and 3) meet at pixel <<1,1>> and continue
\* as segment 4, which ends at the mask-False pixel <<1,2>>; the flow goes
\* on into segment 1 at <<1,3>>, a separate local network further
\* downstream whose ID is the lowest.
\* "split": as "chain", with a channel of 7 pixels (7 pixel sides from the
\* first centre to the centre of the mask-False pixel that ends it) cut by
\* max_length into 4 pieces of 7/4 pixel sides each: the split points fall
\* before a pixel centre, on a pixel boundary and after a pixel centre.
\* "tri": three arms of one pixel each (segments 1, 3 and 4) meet at pixel
\* <<1,1>>, where segment 2 starts; it ends at the mask-False pixel <<1,2>>.
\* "south": three columns draining south, each a segment over rows 0 to 2
\* that ends at the mask-False pixel of row 3.
Shape(n) ==
    IF n = "chain" THEN <<2, 2 * ChainLen + 1>>
    ELSE IF n = "split" THEN <<2, 8>>
    ELSE IF n = "tri" THEN <<3, 3>>
    ELSE IF n = "south" THEN <<4, 3>>
    ELSE <<3, 5>>

Pixels(n) == (0 .. Shape(n)[1] - 1) \X (0 .. Shape(n)[2] - 1)

\* D8 codes: 1 = E, 2 = SE, 4 = S, 8 = SW, 16 = W, 32 = NW, 64 = N, 128 = NE
FlowValue(n, p) ==
    IF n \in {"chain", "split"} THEN (IF p[1] = 0 THEN 4 ELSE 1)
    ELSE IF n = "south" THEN 4
    ELSE IF p[1] = 1 THEN 1
    ELSE IF p[1] = 0 THEN (IF p[2] = 0 THEN 2 ELSE 4)
    ELSE (IF p[2] = 0 THEN 128 ELSE 64)

\* the stream mask: the pixels that may be assigned to a segment
Mask(n) ==
    IF n = "chain" THEN {1} \X (0 .. 2 * ChainLen - 1)
    ELSE IF n = "split" THEN {1} \X (0 .. 6)
    ELSE IF n = "tri" THEN {<<0, 0>>, <<1, 0>>, <<2, 0>>, <<1, 1>>}
    ELSE IF n = "south" THEN (0 .. 2) \X (0 .. 2)
    ELSE {<<0, 0>>, <<2, 0>>, <<1, 1>>, <<1, 3>>}

Centre(p) == <<4 * p[2] + 2, 4 * p[1] + 2>>

Lines(n) ==
    IF n = "chain"
    THEN [k \in 1 .. ChainLen |->
            << Centre(<<1, 2 * k - 2>>), Centre(<<1, 2 * k - 1>>),
               Centre(<<1, 2 * k>>) >>]
    ELSE IF n = "split"
    THEN << << <<2, 6>>, <<6, 6>>, <<9, 6>> >>,
            << <<9, 6>>, <<10, 6>>, <<14, 6>>, <<16, 6>> >>,
            << <<16, 6>>, <<18, 6>>, <<22, 6>>, <<23, 6>> >>,
            << <<23, 6>>, <<26, 6>>, <<30, 6>> >> >>
    ELSE IF n = "south"
    THEN [c \in 1 .. 3 |->
            << Centre(<<0, c - 1>>), Centre(<<1, c - 1>>),
               Centre(<<2, c - 1>>), Centre(<<3, c - 1>>) >>]
    ELSE IF n = "tri"
    THEN << << Centre(<<0, 0>>), Centre(<<1, 1>>) >>,
            << Centre(<<1, 1>>), Centre(<<1, 2>>) >>,
            << Centre(<<1, 0>>), Centre(<<1, 1>>) >>,
            << Centre(<<2, 0>>), Centre(<<1, 1>>) >> >>
    ELSE << << Centre(<<1, 3>>), Centre(<<1, 4>>) >>,
            << Centre(<<0, 0>>), Centre(<<1, 1>>) >>,
            << Centre(<<2, 0>>), Centre(<<1, 1>>) >>,
            << Centre(<<1, 1>>), Centre(<<1, 2>>) >> >>

(***************************************************************************)
(* D8 routing (pfdf.watershed).                                            *)
(***************************************************************************)
Offset(d) ==
    CASE d = 1   -> <<0, 1>>
      [] d = 2   -> <<1, 1>>
      [] d = 4   -> <<1, 0>>
      [] d = 8   -> <<1, -1>>
      [] d = 16  -> <<0, -1>>
      [] d = 32  -> <<-1, -1>>
      [] d = 64  -> <<-1, 0>>
      [] d = 128 -> <<-1, 1>>
      [] OTHER   -> <<0, 0>>

\* the pixel that p drains to, or p itself at a boundary
Downstream(n, p) ==
    LET o == Offset(FlowValue(n, p))
        q == <<p[1] + o[1], p[2] + o[2]>>
    IN IF q \in Pixels(n) THEN q ELSE p

RECURSIVE Reaches(_, _, _, _)
Reaches(n, p, target, fuel) ==
    IF p = target THEN TRUE
    ELSE IF fuel = 0 \/ Downstream(n, p) = p THEN FALSE
    ELSE Reaches(n, Downstream(n, p), target, fuel - 1)

\* watershed.catchment: the pixels whose flow walk reaches the target
CatchmentTable ==
    [n \in NetNames |->
        [t \in Pixels(n) |->
            {p \in Pixels(n) : Reaches(n, p, t, Cardinality(Pixels(n)))}]]

catchment(n, t) == CatchmentTable[n][t]

\* the pixels that drain directly into p
Inflow(n, p) == {q \in Pixels(n) : q # p /\ Downstream(n, q) = p}

\* watershed.accumulation without weights or mask: each pixel counts 1 and
\* receives the counts of the pixels that drain directly into it
RECURSIVE accumulate(_, _)
RECURSIVE received(_, _)
accumulate(n, p) == 1 + received(n, Inflow(n, p))

received(n, Q) ==
    IF Q = {} THEN 0
    ELSE LET q == CHOOSE x \in Q : TRUE
         IN accumulate(n, q) + received(n, Q \ {q})

AccumulationTable == [n \in NetNames |-> [p \in Pixels(n) |-> accumulate(n, p)]]

accumulation(n) == AccumulationTable[n]

(***************************************************************************)
(* Segments.__init__                                                       *)
(***************************************************************************)
\* rasterio.transform.rowcol under the model's transform
rowcol(xy) == <<xy[2] \div 4, xy[1] \div 4>>

\* the loop over the polylines without the removal of the final coordinate
RECURSIVE PixelLoop_keep_final(_, _, _)
PixelLoop_keep_final(lines, s, split) ==
    IF s > Len(lines) THEN <<>>
    ELSE LET coords == lines[s]
             rc     == [i \in 1 .. Len(coords) |-> rowcol(coords[i])]
             split1 == split \/ rc[1] = rc[2]
             rc1    == IF split1 THEN Tail(rc) ELSE rc
             split2 == Len(rc1) >= 2 /\ rc1[Len(rc1)] = rc1[Len(rc1) - 1]
         IN <<rc1>> \o PixelLoop_keep_final(lines, s + 1, split2)

\* the loop over the polylines with the split flag not carried over from the
\* previous polyline
RECURSIVE PixelLoop_own_split(_, _, _)
PixelLoop_own_split(lines, s, split) ==
    IF s > Len(lines) THEN <<>>
    ELSE LET coords == lines[s]
             rc     == [i \in 1 .. Len(coords) |-> rowcol(coords[i])]
             split1 == rc[1] = rc[2]
             rc1    == IF split1 THEN Tail(rc) ELSE rc
         IN <<SubSeq(rc1, 1, Len(rc1) - 1)>>
                \o PixelLoop_own_split(lines, s + 1, FALSE)

\* The loop over the polylines: the pixels of each one, the first dropped
\* after a split point and the last one always dropped.  "split" is the
\* flag the loop carries from one segment to the next.
RECURSIVE PixelLoop(_, _, _)
PixelLoop(lines, s, split) ==
    IF s > Len(lines) THEN <<>>
    ELSE LET coords == lines[s]
             rc     == [i \in 1 .. Len(coords) |-> rowcol(coords[i])]
             split1 == split \/ rc[1] = rc[2]
             rc1    == IF split1 THEN Tail(rc) ELSE rc
             split2 == Len(rc1) >= 2 /\ rc1[Len(rc1)] = rc1[Len(rc1) - 1]
         IN <<SubSeq(rc1, 1, Len(rc1) - 1)>> \o PixelLoop(lines, s + 1, split2)

starts(lines) == [s \in 1 .. Len(lines) |-> lines[s][1]]
line_outlets(lines) == [s \in 1 .. Len(lines) |-> lines[s][Len(lines[s])]]

\* the parents search keeping at most two parents
found_parents_two(lines, s) ==
    LET found == {p \in 1 .. Len(lines) : line_outlets(lines)[p] = starts(lines)[s]}
    IN {p \in found : Cardinality({q \in found : q < p}) < 2}

\* the segments whose end coordinate is the start coordinate of s
found_parents(lines, s) ==
    {p \in 1 .. Len(lines) : line_outlets(lines)[p] = starts(lines)[s]}

Max(A) == CHOOSE x \in A : \A y \in A : y <= x

\* the width of the parents table: 2 columns, more when a confluence has more
parents_width(lines) ==
    Max({2} \cup {Cardinality(found_parents(lines, s)) : s \in 1 .. Len(lines)})

Pad(q, width) == q \o [i \in 1 .. width - Len(q) |-> NoSegment]

init_parents(lines) ==
    [s \in 1 .. Len(lines) |->
        Pad(SetToSeq(found_parents(lines, s)), parents_width(lines))]

\* child taken as the next segment of the list
init_child_next(lines) ==
    [p \in 1 .. Len(lines) |-> IF p < Len(lines) THEN p + 1 ELSE NoSegment]

\* self._child[parents] = s, for s in increasing order
init_child(lines) ==
    [p \in 1 .. Len(lines) |->
        LET ss == {s \in 1 .. Len(lines) : p \in found_parents(lines, s)}
        IN IF ss = {} THEN NoSegment ELSE Max(ss)]

Last(q) == q[Len(q)]

\* npixels read at the first pixel of each segment
init_npixels_start(n, pix) ==
    [s \in 1 .. Len(pix) |-> accumulation(n)[pix[s][1]]]

\* Segments._values_at_outlets of the accumulation raster
init_npixels(n, pix) ==
    [s \in 1 .. Len(pix) |-> accumulation(n)[Last(pix[s])]]

\* The inner pixel lists are objects of their own: list s holds pix[s].
init_lists(n) == PixelLoop(Lines(n), 1, FALSE)

Segments_init(n) ==
    [ segments |-> Lines(n),
      ids      |-> [s \in 1 .. Len(Lines(n)) |-> s],
      indices  |-> [s \in 1 .. Len(Lines(n)) |-> s],
      npixels  |-> init_npixels(n, init_lists(n)),
      child    |-> init_child(Lines(n)),
      parents  |-> init_parents(Lines(n)),
      basins   |-> None ]

\* _segments_raster: each segment's pixels are set to its ID, in order
RECURSIVE segments_raster(_, _, _, _)
segments_raster(n, o, ls, k) ==
    IF k = 0 THEN [p \in Pixels(n) |-> 0]
    ELSE [p \in DOMAIN segments_raster(n, o, ls, k - 1) |->
            IF \E j \in DOMAIN ls[o.indices[k]] : ls[o.indices[k]][j] = p
            THEN o.ids[k]
            ELSE segments_raster(n, o, ls, k - 1)[p]]

(***************************************************************************)
(* Queries.  o is the record of an object's attributes; a boolean index    *)
(* vector is modelled by the set of the positions where it is True.        *)
(***************************************************************************)
size(o) == Len(o.segments)

All(o) == 1 .. size(o)

isterminal(o) == {i \in All(o) : o.child[i] = NoSegment}

nlocal(o) == Cardinality(isterminal(o))

terminal_ids(o) == [k \in 1 .. nlocal(o) |-> o.ids[SetToSeq(isterminal(o))[k]]]

get_parents(o, index) ==
    SelectSeq(o.parents[index], LAMBDA x : x # NoSegment)

\* the walk of termini: follow child until there is none
RECURSIVE terminus(_, _)
terminus(o, index) ==
    IF o.child[index] = NoSegment THEN index ELSE terminus(o, o.child[index])

\* outlets(..., segment_outlets=True): the last pixel of the segment
segment_outlet(o, ls, index) == Last(ls[o.indices[index]])

\* outlets(...): the last pixel of the segment's terminal segment
outlets(o, ls, index) == segment_outlet(o, ls, terminus(o, index))

located_basins(o) == o.basins # None

\* isnested that tests each segment at its own outlet against its own ID
isnested_own_outlet(o, ls, raster) ==
    {i \in All(o) : o.ids[i] # raster[segment_outlet(o, ls, i)]}

\* isnested() of every segment, given the basin raster: the positions of the
\* segments whose terminal's ID differs from the raster value at its outlet
isnested(o, ls, raster) ==
    LET termini        == [i \in All(o) |-> o.ids[terminus(o, i)]]
        outlet_ids     == Range(termini)
        basin_id(id)   == LET t == CHOOSE i \in All(o) : o.ids[i] = id
                          IN raster[outlets(o, ls, t)]
        nested_outlets == {id \in outlet_ids : id # basin_id(id)}
    IN {i \in All(o) : termini[i] \in nested_outlets}

TerminalIdSet(o) == {o.ids[i] : i \in isterminal(o)}

(***************************************************************************)
(* pfdf.segments._update                                                   *)
(***************************************************************************)
\* family: the links to removed segments are cut: a removed segment's child
\* loses that parent slot and its parents lose their child link
family(child, parents, removed) ==
    [ child   |-> [i \in DOMAIN child |->
                     IF child[i] \in removed THEN NoSegment ELSE child[i]],
      parents |-> [i \in DOMAIN parents |->
                     [k \in DOMAIN parents[i] |->
                        IF parents[i][k] \in removed THEN NoSegment
                        ELSE parents[i][k]]] ]

\* the number of removed positions up to and including position i
nremoved(removed, i) == Cardinality({r \in removed : r <= i})

reindex(removed, i) == IF i = NoSegment THEN NoSegment ELSE i - nremoved(removed, i)

update_segments(o, removed) ==
    [ segments |-> Dropped(o.segments, removed, 1),
      indices  |-> Dropped(o.indices, removed, 1) ]

update_connectivity(o, removed) ==
    LET cut == family(o.child, o.parents, removed)
        c   == Dropped(cut.child, removed, 1)
        ps  == Dropped(cut.parents, removed, 1)
    IN [ child   |-> [i \in DOMAIN c |-> reindex(removed, c[i])],
         parents |-> [i \in DOMAIN ps |->
                        [k \in DOMAIN ps[i] |-> reindex(removed, ps[i][k])]] ]

\* the saved basin raster is dropped when a terminal segment is removed
update_basins(o, removed) ==
    IF o.basins = None THEN None
    ELSE IF removed \cap isterminal(o) # {} THEN None
    ELSE o.basins

(***************************************************************************)
(* Filtering                                                               *)
(***************************************************************************)
\* removable with the upstream edge taken as "some parent slot is empty"
removable_any(requested, child, parents, keep_upstream, keep_downstream) ==
    LET downstream_edge ==
            IF ~keep_downstream
            THEN {i \in DOMAIN child : child[i] = NoSegment} ELSE {}
        upstream_edge ==
            IF ~keep_upstream
            THEN {i \in DOMAIN parents :
                    \E k \in DOMAIN parents[i] : parents[i][k] = NoSegment}
            ELSE {}
    IN requested \cap (downstream_edge \cup upstream_edge)

\* removable with the two keep flags exchanged
removable_swapped(requested, child, parents, keep_upstream, keep_downstream) ==
    LET downstream_edge ==
            IF ~keep_upstream
            THEN {i \in DOMAIN child : child[i] = NoSegment} ELSE {}
        upstream_edge ==
            IF ~keep_downstream
            THEN {i \in DOMAIN parents :
                    \A k \in DOMAIN parents[i] : parents[i][k] = NoSegment}
            ELSE {}
    IN requested \cap (downstream_edge \cup upstream_edge)

removable(requested, child, parents, keep_upstream, keep_downstream) ==
    LET downstream_edge ==
            IF ~keep_downstream
            THEN {i \in DOMAIN child : child[i] = NoSegment} ELSE {}
        upstream_edge ==
            IF ~keep_upstream
            THEN {i \in DOMAIN parents :
                    \A k \in DOMAIN parents[i] : parents[i][k] = NoSegment}
            ELSE {}
    IN requested \cap (downstream_edge \cup upstream_edge)

\* continuous with a single pass in place of the while loop
continuous_once(requested_remove, final_remove, child, parents, keep_upstream, keep_downstream) ==
    final_remove \cup removable(requested_remove, child, parents,
                                keep_upstream, keep_downstream)

\* the while loop of continuous, on its working copies of child and parents
RECURSIVE continuous_loop(_, _, _, _, _, _)
continuous_loop(requested_remove, final_remove, child, parents, keep_upstream, keep_downstream) ==
    LET r == removable(requested_remove, child, parents,
                       keep_upstream, keep_downstream)
    IN IF r = {} THEN final_remove
       ELSE LET cut == family(child, parents, r)
            IN continuous_loop(requested_remove \ r, final_remove \cup r,
                               cut.child, cut.parents,
                               keep_upstream, keep_downstream)

continuous(o, selected, remove_flag, keep_upstream, keep_downstream) ==
    LET requested_remove == IF remove_flag THEN selected ELSE All(o) \ selected
        final_remove == continuous_loop(requested_remove, {}, o.child, o.parents,
                                        keep_upstream, keep_downstream)
    IN IF remove_flag THEN final_remove ELSE All(o) \ final_remove

\* remove that filters the child and parents tables without cutting the
\* links to removed segments or renumbering the others
remove_filter_only(o, selected) ==
    [ segments |-> update_segments(o, selected).segments,
      ids      |-> Dropped(o.ids, selected, 1),
      indices  |-> update_segments(o, selected).indices,
      npixels  |-> Dropped(o.npixels, selected, 1),
      child    |-> Dropped(o.child, selected, 1),
      parents  |-> Dropped(o.parents, selected, 1),
      basins   |-> update_basins(o, selected) ]

\* remove that leaves the saved basin raster as it is
remove_basins_kept(o, selected) ==
    [ segments |-> update_segments(o, selected).segments,
      ids      |-> Dropped(o.ids, selected, 1),
      indices  |-> update_segments(o, selected).indices,
      npixels  |-> Dropped(o.npixels, selected, 1),
      child    |-> update_connectivity(o, selected).child,
      parents  |-> update_connectivity(o, selected).parents,
      basins   |-> o.basins ]

\* remove that numbers the remaining segments again from 1
remove_renumbered(o, selected) ==
    [ segments |-> update_segments(o, selected).segments,
      ids      |-> [i \in 1 .. Len(Dropped(o.ids, selected, 1)) |-> i],
      indices  |-> update_segments(o, selected).indices,
      npixels  |-> Dropped(o.npixels, selected, 1),
      child    |-> update_connectivity(o, selected).child,
      parents  |-> update_connectivity(o, selected).parents,
      basins   |-> update_basins(o, selected) ]

remove(o, selected) ==
    [ segments |-> update_segments(o, selected).segments,
      ids      |-> Dropped(o.ids, selected, 1),
      indices  |-> update_segments(o, selected).indices,
      npixels  |-> Dropped(o.npixels, selected, 1),
      child    |-> update_connectivity(o, selected).child,
      parents  |-> update_connectivity(o, selected).parents,
      basins   |-> update_basins(o, selected) ]

\* svalidate.selection(self, selected, "ids"): the positions of the IDs
selection_ids(o, selected) == {i \in All(o) : o.ids[i] \in selected}

\* s.remove(selected, type="ids")
remove_ids(o, selected) == remove(o, selection_ids(o, selected))

\* keep that passes its selection to remove without inverting it
keep_not_inverted(o, selected) == remove(o, selected)

keep(o, selected) == remove(o, All(o) \ selected)

(***************************************************************************)
(* pfdf.segments._basins: the terminal-basin raster                        *)
(***************************************************************************)
new_raster(n) == [p \in Pixels(n) |-> 0]

\* the terminal segments as <<ID, outlet pixel>>, by descending ID
RECURSIVE Descending(_)
Descending(A) ==
    IF A = {} THEN <<>>
    ELSE <<Max(A)>> \o Descending(A \ {Max(A)})

terminal_outlet(o, ls, id) ==
    LET t == CHOOSE i \in isterminal(o) : o.ids[i] = id
    IN segment_outlet(o, ls, t)

\* stamp that writes only where the raster is still 0
stamp_where_zero(n, o, ls, raster, id) ==
    LET basin == catchment(n, terminal_outlet(o, ls, id))
    IN [p \in Pixels(n) |->
          IF p \in basin /\ raster[p] = 0 THEN id ELSE raster[p]]

\* Stamp one terminal's ID on its catchment, wherever the raster is still 0
\* or holds a terminal whose outlet is upstream of this terminal's outlet.
stamp(n, o, ls, raster, id) ==
    LET basin == catchment(n, terminal_outlet(o, ls, id))
    IN [p \in Pixels(n) |->
          IF /\ p \in basin
             /\ \/ raster[p] = 0
                \/ terminal_outlet(o, ls, raster[p]) \in basin
          THEN id ELSE raster[p]]

RECURSIVE paint(_, _, _, _, _)
paint(n, o, ls, raster, todo) ==
    IF todo = <<>> THEN raster
    ELSE paint(n, o, ls, stamp(n, o, ls, raster, Head(todo)), Tail(todo))

built_sequentially(n, o, ls) ==
    paint(n, o, ls, new_raster(n), Descending(Range(terminal_ids(o))))

(***************************************************************************)
(* The state machine                                                       *)
(***************************************************************************)
Handles == {1, 2}
ArrRefs == 1 .. Cardinality(Handles) + 1

\* arrays no object refers to are reclaimed
Collect(arrs, os) ==
    LET live == {os[h].basins : h \in DOMAIN os} \ {None}
    IN [r \in live \cap DOMAIN arrs |-> arrs[r]]

NewRef(arrs) == CHOOSE r \in ArrRefs \ DOMAIN arrs :
                    \A q \in ArrRefs \ DOMAIN arrs : r <= q

Call(op, h, sel, ku, kd, ret, built) ==
    [op |-> op, h |-> h, sel |-> sel, keep_upstream |-> ku,
     keep_downstream |-> kd, ret |-> ret, built |-> built]

Idle == [phase |-> "idle"]

Init ==
    /\ net \in NetNames
    /\ objs = [h \in {1} |-> Segments_init(net)]
    /\ cvar = 0
    /\ arrays = [r \in {} |-> new_raster(net)]
    /\ lists = init_lists(net)
    /\ par = Idle
    /\ last = Call("init", 1, {}, FALSE, FALSE, {}, FALSE)

\* s.remove(selected)
RemoveCall(h, selected) ==
    /\ par.phase = "idle"
    /\ h \in DOMAIN objs
    /\ objs' = [objs EXCEPT ![h] = remove(@, selected)]
    /\ arrays' = Collect(arrays, objs')
    /\ UNCHANGED <<net, cvar, lists, par>>

\* s.keep(selected)
KeepCall(h, selected) ==
    /\ par.phase = "idle"
    /\ h \in DOMAIN objs
    /\ objs' = [objs EXCEPT ![h] = keep(@, selected)]
    /\ arrays' = Collect(arrays, objs')
    /\ UNCHANGED <<net, cvar, lists, par>>

\* locate_basins without the test for a saved raster
locate_basins_rebuild(n, o, ls, arrs) ==
    [ basins |-> NewRef(arrs), raster |-> built_sequentially(n, o, ls),
      built |-> TRUE ]

\* s.locate_basins(): builds and saves the raster unless one is saved
locate_basins(n, o, ls, arrs) ==
    IF o.basins = None
    THEN [ basins |-> NewRef(arrs), raster |-> built_sequentially(n, o, ls),
           built |-> TRUE ]
    ELSE [ basins |-> o.basins, raster |-> arrs[o.basins], built |-> FALSE ]

LocateCall(h) ==
    /\ par.phase = "idle"
    /\ h \in DOMAIN objs
    /\ LET lb == locate_basins(net, objs[h], lists, arrays)
       IN /\ objs' = [objs EXCEPT ![h].basins = lb.basins]
          /\ arrays' = Collect([r \in DOMAIN arrays \cup {lb.basins} |->
                                  IF r = lb.basins THEN lb.raster ELSE arrays[r]],
                               objs')
    /\ UNCHANGED <<net, cvar, lists, par>>

Built(h) == locate_basins(net, objs[h], lists, arrays).built

Remove(h, selected) ==
    /\ RemoveCall(h, selected)
    /\ last' = Call("remove", h, selected, FALSE, FALSE, {}, FALSE)

Keep(h, selected) ==
    /\ KeepCall(h, selected)
    /\ last' = Call("keep", h, selected, FALSE, FALSE, {}, FALSE)

\* s.remove(s.continuous(selected, remove=True, keep_upstream, keep_downstream))
RemoveContinuous(h, selected, ku, kd) ==
    /\ h \in DOMAIN objs
    /\ LET ret == continuous(objs[h], selected, TRUE, ku, kd)
       IN /\ RemoveCall(h, ret)
          /\ last' = Call("remove_continuous", h, selected, ku, kd, ret, FALSE)

LocateBasins(h) ==
    /\ LocateCall(h)
    /\ last' = Call("locate_basins", h, {}, FALSE, FALSE, {}, Built(h))

\* s.isnested() and s.raster(basins=True) go through _locate_basins
IsNested(h) ==
    /\ LocateCall(h)
    /\ last' = Call("isnested", h, {}, FALSE, FALSE,
                    isnested(objs'[h], lists, arrays'[objs'[h].basins]),
                    Built(h))

RasterBasins(h) ==
    /\ LocateCall(h)
    /\ last' = Call("raster", h, {}, FALSE, FALSE, {}, Built(h))

(***************************************************************************)
(* Segments.copy, and the two-object behaviours.  Here the calls record    *)
(* only their name and receiver.                                           *)
(***************************************************************************)
\* copy = self in place of a new object
new_object_self(self, os) == self

\* copy = super().__new__(Segments): a new object, distinct from every other
new_object(self, os) == CHOOSE h \in Handles \ DOMAIN os : TRUE

\* The attributes of the copy: the lists and arrays are duplicated; the inner
\* pixel lists and the saved basin raster are the same objects as self's.
copy(o) ==
    [ segments |-> o.segments,
      ids      |-> o.ids,
      indices  |-> o.indices,
      npixels  |-> o.npixels,
      child    |-> o.child,
      parents  |-> o.parents,
      basins   |-> o.basins ]

\* c = s.copy()
Copy(h) ==
    /\ par.phase = "idle"
    /\ h \in DOMAIN objs
    /\ cvar = 0
    /\ LET c == new_object(h, objs)
       IN /\ objs' = [x \in DOMAIN objs \cup {c} |->
                        IF x = c THEN copy(objs[h]) ELSE objs[x]]
          /\ cvar' = c
    /\ last' = Call("copy", h, {}, FALSE, FALSE, {}, FALSE)
    /\ UNCHANGED <<net, arrays, lists, par>>

RemoveOn(h, selected) ==
    /\ RemoveCall(h, selected)
    /\ last' = Call("remove", h, {}, FALSE, FALSE, {}, FALSE)

KeepOn(h, selected) ==
    /\ KeepCall(h, selected)
    /\ last' = Call("keep", h, {}, FALSE, FALSE, {}, FALSE)

InitCopy == Init /\ net \in {"ynest", "tri"}

NextCopy ==
    \/ Copy(1)
    \/ \E h \in DOMAIN objs : \E sel \in SUBSET All(objs[h]) : RemoveOn(h, sel)
    \/ \E h \in DOMAIN objs : \E sel \in SUBSET All(objs[h]) : KeepOn(h, sel)
    \/ \E h \in DOMAIN objs : LocateBasins(h)

SpecCopy == InitCopy /\ [][NextCopy]_vars

\* the same calls on a run split in pieces (interior segments) and on a
\* network with a nested terminal
InitCache == Init /\ net \in {"split", "ynest"}

SpecCache == InitCache /\ [][NextCopy]_vars

(***************************************************************************)
(* The parallel basin build, one step per terminal painted by a worker.    *)
(***************************************************************************)
\* the reduction of two buffers with the larger integer winning
merge_max(n, o, ls, a, b) ==
    [p \in Pixels(n) |-> IF a[p] >= b[p] THEN a[p] ELSE b[p]]

\* The reduction of two buffers: per pixel the terminal further downstream.
merge(n, o, ls, a, b) ==
    [p \in Pixels(n) |->
        IF a[p] = 0 THEN b[p]
        ELSE IF b[p] = 0 THEN a[p]
        ELSE IF terminal_outlet(o, ls, a[p])
                  \in catchment(n, terminal_outlet(o, ls, b[p]))
             THEN b[p] ELSE a[p]]

RECURSIVE reduce(_, _, _, _, _, _)
reduce(n, o, ls, bufs, w, acc) ==
    IF w > Len(bufs) THEN acc
    ELSE reduce(n, o, ls, bufs, w + 1, merge(n, o, ls, acc, bufs[w]))

\* s.locate_basins(parallel=True, nprocess): the terminals are split into
\* groups, one per worker, each with a private buffer
ParStart(h, nprocess, group) ==
    /\ par.phase = "idle"
    /\ h \in DOMAIN objs
    /\ objs[h].basins = None
    /\ par' = [ phase  |-> "running",
                h      |-> h,
                groups |-> [w \in 1 .. nprocess |->
                             {id \in DOMAIN group : group[id] = w}],
                todo   |-> [w \in 1 .. nprocess |->
                             Descending({id \in DOMAIN group : group[id] = w})],
                bufs   |-> [w \in 1 .. nprocess |-> new_raster(net)] ]
    /\ UNCHANGED <<net, objs, cvar, arrays, lists, last>>

\* worker w paints its next terminal on its own buffer
ParStep(w) ==
    /\ par.phase = "running"
    /\ w \in DOMAIN par.todo
    /\ par.todo[w] # <<>>
    /\ par' = [par EXCEPT
                 !.bufs[w] = stamp(net, objs[par.h], lists, @, Head(par.todo[w])),
                 !.todo[w] = Tail(@)]
    /\ UNCHANGED <<net, objs, cvar, arrays, lists, last>>

\* all workers are done: the buffers are reduced and the raster is saved
ParReduce ==
    /\ par.phase = "running"
    /\ \A w \in DOMAIN par.todo : par.todo[w] = <<>>
    /\ LET h == par.h
           r == NewRef(arrays)
           raster == reduce(net, objs[h], lists, par.bufs, 1, new_raster(net))
       IN /\ objs' = [objs EXCEPT ![h].basins = r]
          /\ arrays' = [x \in DOMAIN arrays \cup {r} |->
                          IF x = r THEN raster ELSE arrays[x]]
          /\ last' = Call("locate_basins_parallel", h,
                          {w \in DOMAIN par.groups : par.groups[w] # {}},
                          FALSE, FALSE, {}, TRUE)
    /\ par' = Idle
    /\ UNCHANGED <<net, cvar, lists>>

NextPar ==
    \/ \E sel \in SUBSET All(objs[1]) : RemoveOn(1, sel)
    \/ \E nprocess \in 1 .. MaxWorkers :
          \E group \in [TerminalIdSet(objs[1]) -> 1 .. nprocess] :
             ParStart(1, nprocess, group)
    \/ \E w \in 1 .. MaxWorkers : ParStep(w)
    \/ ParReduce

SpecPar == Init /\ [][NextPar]_vars

(***************************************************************************)
(* A caller that changes, in place, the value a query returned.            *)
(***************************************************************************)
Queries == {"segments", "ids", "npixels", "indices", "raster"}

\* What the value returned by a query shares with the object: the segments,
\* ids and npixels properties return copies; indices returns a copy of the
\* outer list, whose entries are the object's own (rows, cols) lists;
\* raster(basins=True) wraps the saved array without copying it.
shares(q) ==
    CASE q = "indices" -> "lists"
      [] q = "raster"  -> "array"
      [] OTHER         -> "nothing"

Query(h, q) ==
    /\ h \in DOMAIN objs
    /\ IF q = "raster" THEN LocateCall(h)
       ELSE UNCHANGED <<net, objs, cvar, arrays, lists, par>>
    /\ last' = Call(q, h, {}, FALSE, FALSE, {}, FALSE)

\* The caller writes into the value that the latest query returned: 0 into
\* the last entry of one row list and column list of indices, or, for the
\* raster, fill(value=1, copy=False), which overwrites the NoData (0) pixels.
Mutate(h) ==
    /\ last.h = h
    /\ last.op \in Queries
    /\ CASE shares(last.op) = "lists" ->
              /\ \E k \in All(objs[h]) :
                    lists' = [lists EXCEPT ![objs[h].indices[k]] =
                                 [@ EXCEPT ![Len(@)] = <<0, 0>>]]
              /\ UNCHANGED arrays
         [] shares(last.op) = "array" ->
              /\ arrays' = [arrays EXCEPT ![objs[h].basins] =
                               [p \in Pixels(net) |-> IF @[p] = 0 THEN 1 ELSE @[p]]]
              /\ UNCHANGED lists
         [] OTHER -> UNCHANGED <<arrays, lists>>
    /\ last' = Call("mutate", h, {}, FALSE, FALSE, {}, FALSE)
    /\ UNCHANGED <<net, objs, cvar, par>>

NextMut ==
    \/ \E q \in Queries : Query(1, q)
    \/ Mutate(1)

SpecMut == Init /\ [][NextMut]_vars

(***************************************************************************)
(* Summaries over a values raster.  A float is a record: NaN, or the exact *)
(* quotient num / den.  A raster is its values and its NoData value.       *)
(***************************************************************************)
NaN == [nan |-> TRUE, num |-> 0, den |-> 1]

Float(x) == [nan |-> FALSE, num |-> x, den |-> 1]

\* the values rasters of the model: a different positive number in every
\* pixel, except for the NoData value in the pixel nd (a stream pixel, the
\* pixel <<0,1>> or no pixel) and NaN in the pixel nn (<<0,0>> or no pixel);
\* the NoData value is 0 or NaN
NoPixel == <<-1, -1>>

ValuesRaster(n, nodata, nd, nn) ==
    [ values |-> [p \in Pixels(n) |->
                    IF p = nd THEN nodata
                    ELSE IF p = nn THEN NaN
                    ELSE Float(1 + p[1] * Shape(n)[2] + p[2])],
      nodata |-> nodata ]

ValuesRasters(n) ==
    {ValuesRaster(n, Float(0), nd, nn) :
        nd \in Mask(n) \cup {NoPixel, <<0, 1>>}, nn \in {NoPixel, <<0, 0>>}}
    \cup {ValuesRaster(n, NaN, nd, NoPixel) :
             nd \in Mask(n) \cup {NoPixel, <<0, 1>>}}

\* NodataMask(values, nodata): the elements equal to NoData
IsNodata(x, nodata) == IF nodata.nan THEN x.nan ELSE x = nodata

\* the element of the raster at a pixel, as float, NoData filled with NaN
filled(raster, p) ==
    IF IsNodata(raster.values[p], raster.nodata) THEN NaN ELSE raster.values[p]

\* _summarize(identity, raster, indices=outlet): one pixel is selected
summarize_identity(raster, outlet) ==
    LET values == <<filled(raster, outlet)>>
    IN IF \A k \in DOMAIN values : values[k].nan THEN NaN ELSE values[1]

\* the values at the outlets of the terminal segments the segments drain to
values_at_outlets_terminus(o, ls, raster, terminal) ==
    LET ids == IF terminal THEN SetToSeq(isterminal(o)) ELSE [i \in All(o) |-> i]
    IN [k \in DOMAIN ids |-> summarize_identity(raster, outlets(o, ls, ids[k]))]

\* _values_at_outlets: self.outlets(ids, segment_outlets=True), then the
\* value at each outlet
values_at_outlets(o, ls, raster, terminal) ==
    LET ids == IF terminal THEN SetToSeq(isterminal(o)) ELSE [i \in All(o) |-> i]
    IN [k \in DOMAIN ids |->
          summarize_identity(raster, segment_outlet(o, ls, ids[k]))]

Query2(op, h, arg, values, ret) ==
    [op |-> op, h |-> h, arg |-> arg, values |-> values, ret |-> ret]

Query3(op, h, arg, values, mask, terminal, ret) ==
    [op |-> op, h |-> h, arg |-> arg, values |-> values, mask |-> mask,
     terminal |-> terminal, ret |-> ret]

\* s.summary("outlet", values)
SummaryOutlet(h, raster) ==
    /\ par.phase = "idle"
    /\ h \in DOMAIN objs
    /\ last' = Query2("summary", h, "outlet", raster,
                      values_at_outlets(objs[h], lists, raster, FALSE))
    /\ UNCHANGED <<net, objs, cvar, arrays, lists, par>>

\* s.outlets(segment_outlets=...), for every segment
Outlets(h, segment_outlets) ==
    /\ par.phase = "idle"
    /\ h \in DOMAIN objs
    /\ last' = Query2("outlets", h, segment_outlets, <<>>,
                      [i \in All(objs[h]) |->
                          IF segment_outlets
                          THEN segment_outlet(objs[h], lists, i)
                          ELSE outlets(objs[h], lists, i)])
    /\ UNCHANGED <<net, objs, cvar, arrays, lists, par>>

\* the user masks of the model: none, all False, all True but one pixel
NoMask == [given |-> FALSE, true |-> {}]

UserMasks(n) ==
    {NoMask, [given |-> TRUE, true |-> {}],
     [given |-> TRUE, true |-> Pixels(n) \ {<<0, 0>>}]}

\* watershed.accumulation(flow, weights, mask, omitnan): the weight of a
\* pixel is 0 outside the mask, 1 without a weights raster, else its value,
\* where NoData and NaN count 0 under omitnan and are NaN otherwise
pixel_weight(weights, raster, mask, omitnan, p) ==
    IF mask.given /\ p \notin mask.true THEN Float(0)
    ELSE IF ~weights THEN Float(1)
    ELSE IF filled(raster, p).nan THEN (IF omitnan THEN Float(0) ELSE NaN)
    ELSE filled(raster, p)

Plus(a, b) == IF a.nan \/ b.nan THEN NaN ELSE Float(a.num + b.num)

\* each pixel passes its weight and what it received on to the next pixel
RECURSIVE weighted_accumulate(_, _, _, _, _, _)
RECURSIVE weighted_received(_, _, _, _, _, _)
weighted_accumulate(n, weights, raster, mask, omitnan, p) ==
    Plus(pixel_weight(weights, raster, mask, omitnan, p),
         weighted_received(n, weights, raster, mask, omitnan, Inflow(n, p)))

weighted_received(n, weights, raster, mask, omitnan, Q) ==
    IF Q = {} THEN Float(0)
    ELSE LET q == CHOOSE x \in Q : TRUE
         IN Plus(weighted_accumulate(n, weights, raster, mask, omitnan, q),
                 weighted_received(n, weights, raster, mask, omitnan, Q \ {q}))

basin_npixels(o, terminal) ==
    LET ids == IF terminal THEN SetToSeq(isterminal(o)) ELSE [i \in All(o) |-> i]
    IN [k \in DOMAIN ids |-> Float(o.npixels[ids[k]])]

\* Segments._accumulation: npixels by default, else the accumulation raster
\* read at the outlets
segments_accumulation(n, o, ls, weights, raster, mask, terminal, omitnan) ==
    IF ~weights /\ ~mask.given THEN basin_npixels(o, terminal)
    ELSE values_at_outlets(
            o, ls,
            [ values |-> [p \in Pixels(n) |->
                            weighted_accumulate(n, weights, raster, mask, omitnan, p)],
              nodata |-> NaN ],
            terminal)

OmitsNan(statistic) == statistic \in {"nansum", "nanmean", "nanmax"}

Quotient(a, b) ==
    IF a.nan \/ b.nan THEN NaN ELSE [nan |-> FALSE, num |-> a.num, den |-> b.num]

\* the mask of a nan-statistic: the user's mask (all True if none) with the
\* NoData and NaN pixels of the values set to False
valid_mask(n, raster, mask) ==
    [ given |-> TRUE,
      true  |-> {p \in (IF mask.given THEN mask.true ELSE Pixels(n)) :
                   ~filled(raster, p).nan} ]

\* the accumulation summary with the pixel counts taken under the user's mask
accumulation_summary_count_all(n, o, ls, statistic, raster, mask, terminal) ==
    LET omitnan == OmitsNan(statistic)
        mask1   == IF omitnan THEN valid_mask(n, raster, mask) ELSE mask
        sums    == segments_accumulation(n, o, ls, TRUE, raster, mask1, terminal, omitnan)
        npixels == segments_accumulation(n, o, ls, FALSE, raster, mask, terminal, FALSE)
        sums1   == [k \in DOMAIN sums |->
                      IF npixels[k] = Float(0) THEN NaN ELSE sums[k]]
    IN IF statistic \in {"sum", "nansum"} THEN sums1
       ELSE [k \in DOMAIN sums1 |-> Quotient(sums1[k], npixels[k])]

\* the accumulation summary without sums[npixels == 0] = nan
accumulation_summary_zero_counts(n, o, ls, statistic, raster, mask, terminal) ==
    LET omitnan == OmitsNan(statistic)
        mask1   == IF omitnan THEN valid_mask(n, raster, mask) ELSE mask
        sums    == segments_accumulation(n, o, ls, TRUE, raster, mask1, terminal, omitnan)
        npixels == segments_accumulation(n, o, ls, FALSE, raster, mask1, terminal, FALSE)
    IN IF statistic \in {"sum", "nansum"} THEN sums
       ELSE [k \in DOMAIN sums |-> Quotient(sums[k], npixels[k])]

\* Segments._accumulation_summary
accumulation_summary(n, o, ls, statistic, raster, mask, terminal) ==
    LET omitnan == OmitsNan(statistic)
        mask1   == IF omitnan THEN valid_mask(n, raster, mask) ELSE mask
        sums    == segments_accumulation(n, o, ls, TRUE, raster, mask1, terminal, omitnan)
        npixels == segments_accumulation(n, o, ls, FALSE, raster, mask1, terminal, FALSE)
        sums1   == [k \in DOMAIN sums |->
                      IF npixels[k] = Float(0) THEN NaN ELSE sums[k]]
    IN IF statistic \in {"sum", "nansum"} THEN sums1
       ELSE [k \in DOMAIN sums1 |-> Quotient(sums1[k], npixels[k])]

\* np.amax / np.nanmax of the selected values (not all of them NaN)
apply_max(statistic, values) ==
    IF statistic = "max" /\ \E x \in values : x.nan THEN NaN
    ELSE Float(Max({x.num : x \in {y \in values : ~y.nan}}))

\* the selected values added up one by one
RECURSIVE sum_values(_, _)
sum_values(raster, S) ==
    IF S = {} THEN Float(0)
    ELSE LET p == CHOOSE x \in S : TRUE
         IN Plus(filled(raster, p), sum_values(raster, S \ {p}))

\* the statistic function of _STATS applied to the selected values; the
\* nan-functions leave the NaN values out
apply_statistic(statistic, raster, selected) ==
    LET used == IF OmitsNan(statistic)
                THEN {p \in selected : ~filled(raster, p).nan} ELSE selected
    IN IF statistic \in {"max", "nanmax"}
       THEN apply_max(statistic, {filled(raster, p) : p \in selected})
       ELSE IF statistic \in {"sum", "nansum"} THEN sum_values(raster, used)
       ELSE Quotient(sum_values(raster, used), Float(Cardinality(used)))

\* Segments._summarize over the pixels of a boolean matrix
summarize(statistic, raster, selected) ==
    LET values == {filled(raster, p) : p \in selected}
    IN IF selected = {} \/ \A x \in values : x.nan THEN NaN
       ELSE apply_statistic(statistic, raster, selected)

\* Segments._catchment_summary: one catchment after the other
catchment_summary_iterated(n, o, ls, statistic, raster, mask, terminal) ==
    LET ids == IF terminal THEN SetToSeq(isterminal(o)) ELSE [i \in All(o) |-> i]
    IN [k \in DOMAIN ids |->
          LET basin == catchment(n, segment_outlet(o, ls, ids[k]))
          IN summarize(statistic, raster,
                       IF mask.given THEN basin \cap mask.true ELSE basin)]

Statistics == {"outlet", "sum", "mean", "nansum", "nanmean", "max", "nanmax"}

catchment_summary(n, o, ls, statistic, raster, mask, terminal) ==
    IF statistic = "outlet" THEN values_at_outlets(o, ls, raster, terminal)
    ELSE IF statistic \in {"sum", "mean", "nansum", "nanmean"}
    THEN accumulation_summary(n, o, ls, statistic, raster, mask, terminal)
    ELSE catchment_summary_iterated(n, o, ls, statistic, raster, mask, terminal)

\* s.catchment_summary(statistic, values, mask, terminal)
CatchmentSummary(h, statistic, raster, mask, terminal) ==
    /\ par.phase = "idle"
    /\ h \in DOMAIN objs
    /\ last' = Query3("catchment_summary", h, statistic, raster, mask, terminal,
                      catchment_summary(net, objs[h], lists, statistic,
                                        raster, mask, terminal))
    /\ UNCHANGED <<net, objs, cvar, arrays, lists, par>>

\* The queries change nothing of the object, so the model follows each of
\* them from every state reached by removals, and no further.
AfterEdit == last.op \in {"init", "remove"}

InitSummary == Init /\ net \in {"ynest", "split", "tri", "south"}

NextSummary ==
    \/ AfterEdit /\ \E sel \in SUBSET All(objs[1]) : RemoveOn(1, sel)
    \/ AfterEdit /\ \E raster \in ValuesRasters(net) : SummaryOutlet(1, raster)
    \/ AfterEdit /\ \E segment_outlets \in BOOLEAN : Outlets(1, segment_outlets)
    \/ AfterEdit /\ \E statistic \in Statistics, raster \in ValuesRasters(net),
                        mask \in UserMasks(net), terminal \in BOOLEAN :
                       /\ terminal => ~mask.given
                       /\ CatchmentSummary(1, statistic, raster, mask, terminal)

SpecSummary == InitSummary /\ [][NextSummary]_vars

(***************************************************************************)
(* The graph traversals termini, descendents and ancestors, one step per   *)
(* iteration of their loops, applied to any child table over the segments  *)
(* of the network, those with a cycle included; the parents table is the   *)
(* one that agrees with the child table.  "iterations" counts the passes   *)
(* through the loop body; the model follows a traversal for at most        *)
(* MaxIterations passes.                                                   *)
(***************************************************************************)
MaxIterations(o) == size(o) + 1

ChildTables(n) ==
    [1 .. Len(Lines(n)) -> (1 .. Len(Lines(n))) \cup {NoSegment}]

AgreeingParents(c) ==
    [j \in DOMAIN c |-> Pad(SetToSeq({i \in DOMAIN c : c[i] = j}), Len(c))]

InitWalk ==
    /\ net = "tri"
    /\ \E c \in ChildTables(net) :
          objs = [h \in {1} |->
                    [Segments_init(net) EXCEPT !.child = c,
                                               !.parents = AgreeingParents(c)]]
    /\ cvar = 0
    /\ arrays = [r \in {} |-> new_raster(net)]
    /\ lists = init_lists(net)
    /\ par = Idle
    /\ last = Call("init", 1, {}, FALSE, FALSE, {}, FALSE)

Walk(phase, index, found, iterations) ==
    [phase |-> phase, index |-> index, found |-> found, iterations |-> iterations]

Walking == par.phase \in {"termini", "descendents", "ancestors"}

\* s.termini([id]): index = the position of id
TerminiStart(h, index) ==
    /\ par.phase = "idle"
    /\ par' = Walk("termini", index, <<>>, 0)
    /\ UNCHANGED <<net, objs, cvar, arrays, lists, last>>

\* while self._child[index] != -1: index = self._child[index]
TerminiStep(h) ==
    /\ par.phase = "termini"
    /\ objs[h].child[par.index] # NoSegment
    /\ par.iterations < MaxIterations(objs[h])
    /\ par' = [par EXCEPT !.index = objs[h].child[@], !.iterations = @ + 1]
    /\ UNCHANGED <<net, objs, cvar, arrays, lists, last>>

TerminiReturn(h) ==
    /\ par.phase = "termini"
    /\ objs[h].child[par.index] = NoSegment
    /\ last' = Call("termini", h, {}, FALSE, FALSE, {par.index}, FALSE)
    /\ par' = Idle
    /\ UNCHANGED <<net, objs, cvar, arrays, lists>>

\* s.descendents(id): child = self._child[segment]
DescendentsStart(h, segment) ==
    /\ par.phase = "idle"
    /\ par' = Walk("descendents", objs[h].child[segment], <<>>, 0)
    /\ UNCHANGED <<net, objs, cvar, arrays, lists, last>>

\* while child != -1: descendents.append(child); segment = child;
\* child = self._child[segment]
DescendentsStep(h) ==
    /\ par.phase = "descendents"
    /\ par.index # NoSegment
    /\ par.iterations < MaxIterations(objs[h])
    /\ par' = [par EXCEPT !.found = Append(@, par.index),
                          !.index = objs[h].child[par.index],
                          !.iterations = @ + 1]
    /\ UNCHANGED <<net, objs, cvar, arrays, lists, last>>

DescendentsReturn(h) ==
    /\ par.phase = "descendents"
    /\ par.index = NoSegment
    /\ last' = Call("descendents", h, {}, FALSE, FALSE, Range(par.found), FALSE)
    /\ par' = Idle
    /\ UNCHANGED <<net, objs, cvar, arrays, lists>>

\* s.ancestors(id): ancestors = self._get_parents(segment); k = 0
AncestorsStart(h, segment) ==
    /\ par.phase = "idle"
    /\ par' = Walk("ancestors", 0, get_parents(objs[h], segment), 0)
    /\ UNCHANGED <<net, objs, cvar, arrays, lists, last>>

\* while k < len(ancestors): index = ancestors[k];
\* ancestors += self._get_parents(index); k += 1
AncestorsStep(h) ==
    /\ par.phase = "ancestors"
    /\ par.index < Len(par.found)
    /\ par.iterations < MaxIterations(objs[h])
    /\ par' = [par EXCEPT
                 !.found = @ \o get_parents(objs[h], par.found[par.index + 1]),
                 !.index = @ + 1,
                 !.iterations = @ + 1]
    /\ UNCHANGED <<net, objs, cvar, arrays, lists, last>>

AncestorsReturn(h) ==
    /\ par.phase = "ancestors"
    /\ par.index >= Len(par.found)
    /\ last' = Call("ancestors", h, {}, FALSE, FALSE, Range(par.found), FALSE)
    /\ par' = Idle
    /\ UNCHANGED <<net, objs, cvar, arrays, lists>>

NextWalk ==
    \/ \E i \in All(objs[1]) : TerminiStart(1, i)
    \/ TerminiStep(1)
    \/ TerminiReturn(1)
    \/ \E i \in All(objs[1]) : DescendentsStart(1, i)
    \/ DescendentsStep(1)
    \/ DescendentsReturn(1)
    \/ \E i \in All(objs[1]) : AncestorsStart(1, i)
    \/ AncestorsStep(1)
    \/ AncestorsReturn(1)

SpecWalk == InitWalk /\ [][NextWalk]_vars

(***************************************************************************)
(* Removals by ID on copies of one network: copy 1 removes A and then      *)
(* B minus A, copy 2 removes B and then A minus B, copy 3 removes A union  *)
(* B; or copy 1 keeps S and copy 2 removes the other IDs.  par.todo holds  *)
(* the calls each copy has still to make.                                  *)
(***************************************************************************)
\* s.keep(selected, type="ids")
keep_ids(o, selected) == keep(o, selection_ids(o, selected))

Fork(A, B) ==
    /\ par.phase = "idle"
    /\ DOMAIN objs = {1}
    /\ objs' = [h \in 1 .. 3 |-> IF h = 1 THEN objs[1] ELSE copy(objs[1])]
    /\ par' = [phase |-> "compose", A |-> A, B |-> B,
               todo |-> << <<A, B \ A>>, <<B, A \ B>>, <<A \cup B>> >>]
    /\ last' = Call("copy", 1, {}, FALSE, FALSE, {}, FALSE)
    /\ UNCHANGED <<net, cvar, arrays, lists>>

ForkKeep(S) ==
    /\ par.phase = "idle"
    /\ DOMAIN objs = {1}
    /\ objs' = [h \in 1 .. 2 |-> IF h = 1 THEN objs[1] ELSE copy(objs[1])]
    /\ par' = [phase |-> "keep", A |-> S, B |-> Range(objs[1].ids) \ S,
               todo |-> << <<S>>, <<Range(objs[1].ids) \ S>> >>]
    /\ last' = Call("copy", 1, {}, FALSE, FALSE, {}, FALSE)
    /\ UNCHANGED <<net, cvar, arrays, lists>>

\* the next call of copy h: remove(ids, type="ids")
RemoveIds(h) ==
    /\ par.phase \in {"compose", "keep"}
    /\ h \in DOMAIN objs
    /\ par.todo[h] # <<>>
    /\ ~(par.phase = "keep" /\ h = 1)
    /\ objs' = [objs EXCEPT ![h] = remove_ids(@, Head(par.todo[h]))]
    /\ par' = [par EXCEPT !.todo[h] = Tail(@)]
    /\ last' = Call("remove", h, Head(par.todo[h]), FALSE, FALSE, {}, FALSE)
    /\ UNCHANGED <<net, cvar, arrays, lists>>

\* keep(ids, type="ids") on copy 1
KeepIds ==
    /\ par.phase = "keep"
    /\ par.todo[1] # <<>>
    /\ objs' = [objs EXCEPT ![1] = keep_ids(@, Head(par.todo[1]))]
    /\ par' = [par EXCEPT !.todo[1] = Tail(@)]
    /\ last' = Call("keep", 1, Head(par.todo[1]), FALSE, FALSE, {}, FALSE)
    /\ UNCHANGED <<net, cvar, arrays, lists>>

InitCompose == Init /\ net \in {"ynest", "tri", "split"}

NextCompose ==
    \/ (DOMAIN objs = {1} /\ \E sel \in SUBSET All(objs[1]) : Remove(1, sel))
    \/ \E A \in SUBSET Range(objs[1].ids), B \in SUBSET Range(objs[1].ids) :
          Fork(A, B)
    \/ \E S \in SUBSET Range(objs[1].ids) : ForkKeep(S)
    \/ \E h \in 1 .. 3 : RemoveIds(h)
    \/ KeepIds

SpecCompose == InitCompose /\ [][NextCompose]_vars

(***************************************************************************)
(* Segments.continuous, one step per pass of its while loop.  A table the  *)
(* loop works on is either a copy of the object's table or the object's    *)
(* table itself; _update.family writes to it in place.                     *)
(***************************************************************************)
\* child = self._child: the loop works on the object's own table
working_alias(table) == [own |-> TRUE, value |-> table]

\* child = self._child.copy(); parents = self._parents.copy()
working_copy(table) == [own |-> FALSE, value |-> table]

ContinuousStart(h, selected, remove_flag, ku, kd) ==
    /\ par.phase = "idle"
    /\ h \in DOMAIN objs
    /\ par' = [ phase |-> "continuous", h |-> h, selected |-> selected,
                remove |-> remove_flag, keep_upstream |-> ku,
                keep_downstream |-> kd,
                requested_remove |-> IF remove_flag THEN selected
                                     ELSE All(objs[h]) \ selected,
                final_remove |-> {},
                child |-> working_copy(objs[h].child),
                parents |-> working_copy(objs[h].parents) ]
    /\ UNCHANGED <<net, objs, cvar, arrays, lists, last>>

\* the removable segments found by the current pass
pass_removable ==
    removable(par.requested_remove, par.child.value, par.parents.value,
              par.keep_upstream, par.keep_downstream)

\* one pass of the loop: the removable segments are marked and their links
\* are cut in the working tables
ContinuousStep ==
    /\ par.phase = "continuous"
    /\ pass_removable # {}
    /\ LET cut == family(par.child.value, par.parents.value, pass_removable)
       IN /\ par' = [par EXCEPT
                       !.final_remove = @ \cup pass_removable,
                       !.requested_remove = @ \ pass_removable,
                       !.child.value = cut.child,
                       !.parents.value = cut.parents]
          /\ objs' = [objs EXCEPT
                       ![par.h].child =
                           IF par.child.own THEN cut.child ELSE @,
                       ![par.h].parents =
                           IF par.parents.own THEN cut.parents ELSE @]
    /\ UNCHANGED <<net, cvar, arrays, lists, last>>

\* the loop has ended: the indices are returned
ContinuousReturn ==
    /\ par.phase = "continuous"
    /\ pass_removable = {}
    /\ last' = [op |-> "continuous", h |-> par.h, sel |-> par.selected,
                remove |-> par.remove, keep_upstream |-> par.keep_upstream,
                keep_downstream |-> par.keep_downstream,
                ret |-> IF par.remove THEN par.final_remove
                        ELSE All(objs[par.h]) \ par.final_remove]
    /\ par' = Idle
    /\ UNCHANGED <<net, objs, cvar, arrays, lists>>

InitContinuous == Init /\ net \in {"ynest", "tri"}

NextContinuous ==
    \/ \E sel \in SUBSET All(objs[1]) : Remove(1, sel)
    \/ LocateBasins(1)
    \/ \E sel \in SUBSET All(objs[1]) :
          \E remove_flag \in BOOLEAN, ku \in BOOLEAN, kd \in BOOLEAN :
             ContinuousStart(1, sel, remove_flag, ku, kd)
    \/ ContinuousStep
    \/ ContinuousReturn

SpecContinuous == InitContinuous /\ [][NextContinuous]_vars

(***************************************************************************)
(* The constructor call Segments(flow, mask, max_length, units), step by   *)
(* step: the checks of the flow raster, the check of max_length against    *)
(* the pixel diagonal in the requested units, then the delineation.  Until *)
(* it returns there is no object.                                          *)
(***************************************************************************)
New(stage, crs, transform, max_length, pixel_diagonal, raised, message) ==
    [op |-> "Segments", stage |-> stage, crs |-> crs, transform |-> transform,
     max_length |-> max_length, pixel_diagonal |-> pixel_diagonal,
     raised |-> raised, message |-> message]

\* the error raised for the flow raster, if any
flow_error(crs, transform) ==
    IF ~crs THEN "MissingCRSError"
    ELSE IF ~transform THEN "MissingTransformError"
    ELSE "none"

\* the max_length check with max_length <= pixel_diagonal refused
max_length_error_inclusive(max_length, pixel_diagonal) ==
    max_length <= pixel_diagonal

\* if max_length < pixel_diagonal: raise ValueError
max_length_error(max_length, pixel_diagonal) == max_length < pixel_diagonal

InitNew ==
    /\ net \in NetNames
    /\ objs = [h \in {} |-> Segments_init(net)]
    /\ cvar = 0
    /\ arrays = [r \in {} |-> new_raster(net)]
    /\ lists = <<>>
    /\ par = Idle
    /\ \E crs \in BOOLEAN, transform \in BOOLEAN,
          max_length \in 0 .. MaxLength, pixel_diagonal \in 1 .. MaxLength :
          last = New("start", crs, transform, max_length, pixel_diagonal,
                     "none", <<>>)

ValidateFlow ==
    /\ last.op = "Segments"
    /\ last.stage = "start"
    /\ last' = IF flow_error(last.crs, last.transform) # "none"
               THEN [last EXCEPT !.stage = "raised",
                                 !.raised = flow_error(last.crs, last.transform)]
               ELSE [last EXCEPT !.stage = "flow"]
    /\ UNCHANGED <<net, objs, cvar, arrays, lists, par>>

ValidateMaxLength ==
    /\ last.op = "Segments"
    /\ last.stage = "flow"
    /\ last' = IF max_length_error(last.max_length, last.pixel_diagonal)
               THEN [last EXCEPT !.stage = "raised",
                                 !.raised = "ValueError",
                                 !.message = <<last.max_length, last.pixel_diagonal>>]
               ELSE [last EXCEPT !.stage = "max_length"]
    /\ UNCHANGED <<net, objs, cvar, arrays, lists, par>>

\* the network is delineated and the object is complete
Delineate ==
    /\ last.op = "Segments"
    /\ last.stage = "max_length"
    /\ objs' = [h \in {1} |-> Segments_init(net)]
    /\ lists' = init_lists(net)
    /\ last' = [last EXCEPT !.stage = "done"]
    /\ UNCHANGED <<net, cvar, arrays, par>>

NextNew ==
    \/ ValidateFlow
    \/ ValidateMaxLength
    \/ Delineate

SpecNew == InitNew /\ [][NextNew]_vars

(***************************************************************************)
(* pfdf.data.landfire: download(layer, bounds, email, parent, name,        *)
(* timeout, max_job_time, refresh_rate), step by step.  Times are seconds. *)
(* The LFPS server and the file system are the environment: each response  *)
(* is drawn from Responses, the target path starts absent (with or without *)
(* its parent folder) or present.                                          *)
(***************************************************************************)
MinJobTime == 15
MaxRefreshRate == 3600
inf == 1000000

\* _validate.job_time: a number of at least 15 seconds
job_time(time) == time >= MinJobTime

\* _validate.max_job_time: the validated value (None is any amount of time)
max_job_time(time) == IF time = None THEN inf ELSE time

max_job_time_valid(time) == time = None \/ job_time(time)

refresh_rate_valid(time) == job_time(time) /\ ~(time > MaxRefreshRate)

MaxJobTimes == {None, 10} \cup {MinJobTime + 5 * k : k \in 0 .. JobTimeSteps}

RefreshRates ==
    {10, MaxRefreshRate, MaxRefreshRate + 5}
        \cup {MinJobTime + 5 * k : k \in 0 .. RateSteps}

\* max_job_time -= refresh_rate
Minus(time, rate) == IF time = inf THEN inf ELSE time - rate

Statuses == {"Pending", "Executing", "Succeeded", "Canceled", "Failed", "Unknown"}

\* a reply of the server to a request: an HTTP-level failure, or a JSON
\* object whose fields may be missing ("")
Response(error, success, message, status, outputFile) ==
    [error |-> error, success |-> success, message |-> message,
     status |-> status, outputFile |-> outputFile]

Responses ==
    {Response("HTTPError", "", "", "", "")}
        \cup {Response("none", "False", m, st, "") :
                 m \in {"", "JobId not found", "Server busy"},
                 st \in {"", "Succeeded"}}
        \cup {Response("none", su, "", st, "") :
                 su \in {"", "True"}, st \in (Statuses \ {"Succeeded"}) \cup {""}}
        \cup {Response("none", "", "", "Succeeded", f) : f \in {"", "url"}}

\* the classes of pfdf.errors an error is an instance of
Bases(error) ==
    CASE error \in {"InvalidLFPSJobError", "LFPSJobTimeoutError"}
             -> {error, "LFPSError", "DataAPIError"}
      [] error \in {"MissingAPIFieldError", "InvalidJSONError"}
             -> {error, "DataAPIError"}
      [] OTHER -> {error}

\* job._job_error
job_error(job) ==
    IF job.message = "JobId not found" THEN "ValueError" ELSE "DataAPIError"

\* job.status(id, strict=True): the error it raises, or "none"
job_status(job) ==
    IF job.error # "none" THEN job.error
    ELSE IF job.success = "False" THEN job_error(job)
    ELSE "none"

\* _validate.field: the error it raises, or "none"
field(response, name) ==
    IF response[name] = "" THEN "MissingAPIFieldError" ELSE "none"

\* _check_status with Succeeded treated as still running
check_status_running_succeeded(status) ==
    IF status \in {"Pending", "Executing", "Succeeded"} THEN "running"
    ELSE IF status = "Canceled" THEN "InvalidLFPSJobError"
    ELSE IF status = "Failed" THEN "InvalidLFPSJobError"
    ELSE "DataAPIError"

\* _check_status: "running" for False, "succeeded" for True, or the error
check_status(status) ==
    IF status \in {"Pending", "Executing"} THEN "running"
    ELSE IF status = "Succeeded" THEN "succeeded"
    ELSE IF status = "Canceled" THEN "InvalidLFPSJobError"
    ELSE IF status = "Failed" THEN "InvalidLFPSJobError"
    ELSE "DataAPIError"

\* while max_job_time > 0
keep_waiting(remaining, refresh_rate) == remaining > 0

Download(layer, path, max_time, rate) ==
    [op |-> "download", pc |-> "layer", layer |-> layer, before |-> path,
     path |-> path, temp |-> "none", max_job_time |-> max_time,
     refresh_rate |-> rate, remaining |-> 0, waited |-> 0, sleeps |-> 0,
     submits |-> 0, queries |-> 0, id |-> "", status |-> "", info |-> Response("none", "", "", "", ""),
     raised |-> "none", raised_id |-> "", ret |-> ""]

InitDownload ==
    /\ net = "chain"
    /\ objs = [h \in {} |-> Segments_init(net)]
    /\ cvar = 0
    /\ arrays = [r \in {} |-> new_raster(net)]
    /\ lists = <<>>
    /\ par = Idle
    /\ \E layer \in {"240EVT", "240EVT;240EVC"},
          path \in {"absent", "no parent", "exists"},
          max_time \in MaxJobTimes, rate \in RefreshRates :
          last = Download(layer, path, max_time, rate)

At(pc) == last.op = "download" /\ last.pc = pc

Raise(error, id) ==
    [last EXCEPT !.pc = "raised", !.raised = error, !.raised_id = id,
                 !.temp = "none"]

Rest == UNCHANGED <<net, objs, cvar, arrays, lists, par>>

\* layer = _validate.layer(layer)
ValidateLayer ==
    /\ At("layer")
    /\ last' = IF last.layer = "240EVT;240EVC" THEN Raise("ValueError", "")
               ELSE [last EXCEPT !.pc = "path"]
    /\ Rest

\* download_path with an existing path accepted (overwrite=True)
DownloadPath_overwrite ==
    /\ At("path")
    /\ last' = [last EXCEPT !.pc = "times"]
    /\ Rest

\* path = cvalidate.download_path(parent, name, ..., overwrite=False)
DownloadPath ==
    /\ At("path")
    /\ last' = IF last.path = "exists" THEN Raise("FileExistsError", "")
               ELSE [last EXCEPT !.pc = "times"]
    /\ Rest

\* max_job_time = _validate.max_job_time(...); refresh_rate = ...
ValidateJobTimes ==
    /\ At("times")
    /\ last' = IF ~max_job_time_valid(last.max_job_time)
                    \/ ~refresh_rate_valid(last.refresh_rate)
               THEN Raise("ValueError", "")
               ELSE [last EXCEPT !.pc = "submit",
                                 !.remaining = max_job_time(last.max_job_time)]
    /\ Rest

\* id = job.submit(layer, bounds, email, timeout=timeout)
Submit ==
    /\ At("submit")
    /\ \E error \in {"none", "HTTPError", "MissingAPIFieldError"} :
          last' = IF error # "none"
                  THEN [Raise(error, "") EXCEPT !.submits = @ + 1]
                  ELSE [last EXCEPT !.pc = "while", !.submits = @ + 1,
                                    !.id = "12345"]
    /\ Rest

\* while max_job_time > 0: ... else raise LFPSJobTimeoutError
While ==
    /\ At("while")
    /\ last' = IF keep_waiting(last.remaining, last.refresh_rate)
               THEN [last EXCEPT !.pc = "sleep"]
               ELSE Raise("LFPSJobTimeoutError", last.id)
    /\ Rest

\* sleep(refresh_rate)
Sleep ==
    /\ At("sleep")
    /\ last' = [last EXCEPT !.pc = "status", !.sleeps = @ + 1,
                            !.waited = @ + last.refresh_rate]
    /\ Rest

\* the rest of the loop body: the status query and what follows from it
Status(info) ==
    /\ At("status")
    /\ (check_status(info.status) = "running" /\ last.remaining = inf)
          => last.queries + 1 < MaxQueries
    /\ LET asked == [last EXCEPT !.queries = @ + 1, !.info = info,
                                 !.status = ""]
           read == [asked EXCEPT !.status = info.status]
       IN last' =
            IF job_status(info) # "none"
            THEN [asked EXCEPT !.pc = "raised", !.raised = job_status(info)]
            ELSE IF field(info, "status") # "none"
            THEN [asked EXCEPT !.pc = "raised",
                               !.raised = field(info, "status")]
            ELSE IF check_status(info.status) = "running"
            THEN [read EXCEPT !.pc = "while",
                              !.remaining = Minus(@, last.refresh_rate)]
            ELSE IF check_status(info.status) = "succeeded"
            THEN IF field(info, "outputFile") # "none"
                 THEN [read EXCEPT !.pc = "raised",
                                   !.raised = field(info, "outputFile")]
                 ELSE [read EXCEPT !.pc = "content", !.ret = info.outputFile]
            ELSE [read EXCEPT !.pc = "raised",
                              !.raised = check_status(info.status),
                              !.raised_id =
                                  IF check_status(info.status)
                                         = "InvalidLFPSJobError"
                                  THEN last.id ELSE ""]
    /\ Rest

\* data = requests.content(url, {}, timeout, "LANDFIRE LFPS")
Content ==
    /\ At("content")
    /\ \E error \in {"none", "HTTPError"} :
          last' = IF error # "none" THEN Raise(error, "")
                  ELSE [last EXCEPT !.pc = "unzip"]
    /\ Rest

\* with TemporaryDirectory() as temp: unzip(data, extracted), and the
\* renaming of the files inside the extracted folder
Unzip ==
    /\ At("unzip")
    /\ \E error \in {"none", "BadZipFile"} :
          last' = IF error # "none" THEN Raise(error, "")
                  ELSE [last EXCEPT !.pc = "rename", !.temp = "extracted"]
    /\ Rest

\* extracted.rename(path); return path
Rename ==
    /\ At("rename")
    /\ \E error \in {"none", "OSError"} :
          last' = IF last.path = "no parent" THEN Raise("FileNotFoundError", "")
                  ELSE IF error # "none" THEN Raise(error, "")
                  ELSE [last EXCEPT !.pc = "done", !.path = "data",
                                    !.temp = "none", !.ret = "path"]
    /\ Rest

NextDownload ==
    \/ ValidateLayer
    \/ DownloadPath
    \/ ValidateJobTimes
    \/ Submit
    \/ While
    \/ Sleep
    \/ \E info \in Responses : Status(info)
    \/ Content
    \/ Unzip
    \/ Rename

SpecDownload == InitDownload /\ [][NextDownload]_vars

(***************************************************************************)
(* pfdf._validate.core: matrix(input, name, shape=...), step by step.  An  *)
(* array is modelled by its shape, a sequence of axis lengths; a required  *)
(* shape is a pair whose elements may be -1, or <<>> for None.             *)
(***************************************************************************)
\* the shapes of the inputs: a scalar, 1D of 0 .. MaxAxis elements, 2D, 3D
InputShapes ==
    {<<>>}
        \cup {<<n>> : n \in 0 .. MaxAxis}
        \cup {<<r, c>> : r \in 1 .. MaxAxis, c \in 1 .. MaxAxis}
        \cup {<<r, c, d>> : r \in 1 .. MaxAxis, c \in 1 .. MaxAxis, d \in 1 .. 2}

RequiredShapes ==
    {<<>>} \cup {<<r, c>> : r \in {-1} \cup (1 .. MaxAxis),
                            c \in {-1} \cup (1 .. MaxAxis)}

RECURSIVE array_size(_)
array_size(shape) ==
    IF shape = <<>> THEN 1 ELSE Head(shape) * array_size(Tail(shape))

\* np.atleast_1d(np.array(input))
atleast_1d(shape) == IF shape = <<>> THEN <<1>> ELSE shape

\* nonsingleton(array)[2:] has a True
trailing_nonsingleton(shape) == \E k \in 3 .. Len(shape) : shape[k] > 1

\* shape_: a required length other than -1 differs from the actual one
shape_error(required, actual) ==
    /\ required # <<>>
    /\ \E k \in 1 .. 2 : required[k] # -1 /\ required[k] # actual[k]

MatrixCall(pc, input, required, shape, raised) ==
    [op |-> "matrix", pc |-> pc, input |-> input, required |-> required,
     shape |-> shape, raised |-> raised]

InitMatrix ==
    /\ net = "chain"
    /\ objs = [h \in {} |-> Segments_init(net)]
    /\ cvar = 0
    /\ arrays = [r \in {} |-> new_raster(net)]
    /\ lists = <<>>
    /\ par = Idle
    /\ \E input \in InputShapes, required \in RequiredShapes :
          last = MatrixCall("array", input, required, input, "none")

InMatrix(pc) == last.op = "matrix" /\ last.pc = pc

\* input = array(input, name, dtype, copy=copy)
MatrixArray ==
    /\ InMatrix("array")
    /\ last' = IF array_size(atleast_1d(last.input)) = 0
               THEN [last EXCEPT !.pc = "raised", !.raised = "EmptyArrayError"]
               ELSE [last EXCEPT !.pc = "vector",
                                 !.shape = atleast_1d(last.input)]
    /\ UNCHANGED <<net, objs, cvar, arrays, lists, par>>

\* if input.ndim == 1: input = input.reshape(input.size, 1)
MatrixVector ==
    /\ InMatrix("vector")
    /\ last' = IF Len(last.shape) = 1
               THEN [last EXCEPT !.pc = "dims",
                                 !.shape = <<array_size(last.shape), 1>>]
               ELSE [last EXCEPT !.pc = "dims"]
    /\ UNCHANGED <<net, objs, cvar, arrays, lists, par>>

\* only the first 2 dimensions can be non-singleton; cast as 2D
MatrixDims ==
    /\ InMatrix("dims")
    /\ last' = IF Len(last.shape) > 2 /\ trailing_nonsingleton(last.shape)
               THEN [last EXCEPT !.pc = "raised", !.raised = "DimensionError"]
               ELSE [last EXCEPT !.pc = "shape",
                                 !.shape = SubSeq(last.shape, 1, 2)]
    /\ UNCHANGED <<net, objs, cvar, arrays, lists, par>>

\* shape_(name, ..., required=shape, actual=input.shape); return input
MatrixShape ==
    /\ InMatrix("shape")
    /\ last' = IF shape_error(last.required, last.shape)
               THEN [last EXCEPT !.pc = "raised", !.raised = "ShapeError"]
               ELSE [last EXCEPT !.pc = "returned"]
    /\ UNCHANGED <<net, objs, cvar, arrays, lists, par>>

NextMatrix ==
    \/ MatrixArray
    \/ MatrixVector
    \/ MatrixDims
    \/ MatrixShape

SpecMatrix == InitMatrix /\ [][NextMatrix]_vars

Next ==
    \/ \E sel \in SUBSET All(objs[1]) : Remove(1, sel)
    \/ \E sel \in SUBSET All(objs[1]) : Keep(1, sel)
    \/ \E sel \in SUBSET All(objs[1]), ku \in BOOLEAN, kd \in BOOLEAN :
          RemoveContinuous(1, sel, ku, kd)
    \/ LocateBasins(1)
    \/ IsNested(1)
    \/ RasterBasins(1)

Spec == Init /\ [][Next]_vars

(***************************************************************************)
(* Properties                                                              *)
(***************************************************************************)
\* the positions downstream of position i, following child
RECURSIVE descendents(_, _)
descendents(o, i) ==
    IF o.child[i] = NoSegment THEN {}
    ELSE {o.child[i]} \cup descendents(o, o.child[i])

\* the positions upstream of position i
ancestors(o, i) == {a \in All(o) : i \in descendents(o, a)}

IdsOf(o, positions) == {o.ids[i] : i \in positions}

\* Removing from o the segments not in the ID set kept leaves no gap: between
\* two kept segments on one flow path every segment is kept.
NoGap(o, kept) ==
    \A a \in All(o) : \A b \in descendents(o, a) :
        (o.ids[a] \in kept /\ o.ids[b] \in kept)
            => \A m \in descendents(o, a) :
                  b \in descendents(o, m) => o.ids[m] \in kept

\* the step is s.remove(s.continuous(sel, remove=True, ...)) on object last'.h
IsRemoveContinuous == last'.op = "remove_continuous"

Pre == objs[last'.h]
Post == objs'[last'.h]

\* C1: after remove(continuous(sel, remove=True)) no flow path has a gap:
\* if two surviving segments were linked by a flow path before the removal,
\* every segment between them survives.
C1_FlowContinuity ==
    [][IsRemoveContinuous => NoGap(Pre, Range(Post.ids))]_vars

\* a removal by continuous that refused a requested segment, removed another
\* and left a path of at least three segments
C1_Witness ==
    /\ last.op = "remove_continuous"
    /\ last.ret # {}
    /\ last.sel \ last.ret # {}
    /\ \E a \in All(objs[1]) : Cardinality(descendents(objs[1], a)) >= 2

\* no segment of the set refused is on an edge that the flags allow to remove
NoneLeftOnEdge(o, refusedIds, ku, kd) ==
    \A i \in All(o) :
        o.ids[i] \in refusedIds =>
            /\ ~kd => o.child[i] # NoSegment
            /\ ~ku => get_parents(o, i) # <<>>

\* C2: continuous(sel, remove=True) returns a subset of the request; it never
\* marks a requested segment that has an unrequested segment upstream and
\* another downstream; no requested segment it refused is left on a
\* removable edge; with the default flags it is the largest subset of the
\* request whose removal leaves no gap; and for the chain with request
\* {2, 4} it is empty, also with keep_downstream.
C2_ContinuousLargest ==
    [][IsRemoveContinuous =>
        LET o   == Pre
            sel == last'.sel
            ret == last'.ret
            ku  == last'.keep_upstream
            kd  == last'.keep_downstream
        IN /\ ret \subseteq sel
           /\ \A x \in sel :
                 (/\ ancestors(o, x) \ sel # {}
                  /\ descendents(o, x) \ sel # {}) => x \notin ret
           /\ NoneLeftOnEdge(Post, IdsOf(o, sel \ ret), ku, kd)
           /\ (~ku /\ ~kd) =>
                 \A R \in SUBSET sel :
                    NoGap(o, IdsOf(o, All(o) \ R)) => R \subseteq ret
           /\ (net = "chain" /\ size(o) = ChainLen /\ sel = {2, 4} /\ ~ku)
                 => ret = {}
    ]_vars

\* the chain, whole, after continuous refused the request {2, 4} under
\* keep_downstream
C2_Witness ==
    /\ last.op = "remove_continuous"
    /\ net = "chain"
    /\ size(objs[1]) = ChainLen
    /\ last.sel = {2, 4}
    /\ last.keep_downstream
    /\ last.ret = {}

\* C3 as stated: after remove(continuous(sel, remove=True)) the terminal IDs
\* are among the terminal IDs before the removal.
C3_TerminalsSubset ==
    [][IsRemoveContinuous => TerminalIdSet(Post) \subseteq TerminalIdSet(Pre)]_vars

\* C3 amended: with keep_downstream=True, after
\* remove(continuous(sel, remove=True, keep_downstream=True)) the terminal IDs
\* are among the terminal IDs before the removal.
C3_TerminalsSubsetKeepDownstream ==
    [][(IsRemoveContinuous /\ last'.keep_downstream)
          => TerminalIdSet(Post) \subseteq TerminalIdSet(Pre)]_vars

\* a removal under keep_downstream that removed segments and left some
C3_Witness ==
    /\ last.op = "remove_continuous"
    /\ last.keep_downstream
    /\ ~last.keep_upstream
    /\ last.ret # {}
    /\ size(objs[1]) >= 2

\* C4: with keep_upstream=True continuous never marks a segment that has no
\* parents when continuous is called, and with keep_downstream=True it never
\* marks a terminal segment.
C4_KeepFlagsRetainEnds ==
    [][IsRemoveContinuous =>
        /\ last'.keep_upstream =>
              \A i \in last'.ret : get_parents(Pre, i) # <<>>
        /\ last'.keep_downstream =>
              last'.ret \cap isterminal(Pre) = {}
    ]_vars

\* everything a caller can observe of object h
Observable(os, arrs, ls, h) ==
    [ attributes |-> os[h],
      pixels     |-> [i \in All(os[h]) |-> ls[os[h].indices[i]]],
      raster     |-> IF os[h].basins = None THEN <<>> ELSE arrs[os[h].basins] ]

\* C5: remove with an empty selection and keep with the selection of all
\* segments change no observable attribute, the basin cache included.
C5_EmptyFilters ==
    [][( \/ last'.op = "remove" /\ last'.sel = {}
         \/ last'.op = "keep" /\ last'.sel = All(Pre) )
        => Observable(objs', arrays', lists', last'.h)
             = Observable(objs, arrays, lists, last'.h)]_vars

\* keep(all) was called on a network with several segments and a saved raster
C5_Witness ==
    /\ last.op = "keep"
    /\ last.sel = All(objs[1])
    /\ size(objs[1]) >= 2
    /\ located_basins(objs[1])

\* C6: after c = s.copy(), keep, remove and locate_basins calls on c leave
\* everything observable of s as it was (segments, ids, indices, npixels,
\* child, parents, the basin cache), and such calls on s leave c as it was.
C6_CopyIsolation ==
    [][(cvar # 0 /\ cvar' = cvar
          /\ last'.op \in {"remove", "keep", "locate_basins"})
        => /\ last'.h = cvar =>
                Observable(objs', arrays', lists', 1)
                  = Observable(objs, arrays, lists, 1)
           /\ last'.h = 1 =>
                Observable(objs', arrays', lists', cvar)
                  = Observable(objs, arrays, lists, cvar)]_vars

\* the copy was made of a network with a saved raster, and a removal on the
\* copy then dropped the copy's raster while s has all its segments
C6_Witness ==
    /\ cvar # 0
    /\ last.op = "remove"
    /\ last.h = cvar
    /\ size(objs[cvar]) < size(objs[1])
    /\ located_basins(objs[1])
    /\ ~located_basins(objs[cvar])

\* C7: changing a value returned by a property or query never changes what
\* the object returns afterwards.
C7_StableCopies ==
    [][last'.op = "mutate"
        => Observable(objs', arrays', lists', last'.h)
             = Observable(objs, arrays, lists, last'.h)]_vars

\* a removal or keep took away a terminal segment of o
TerminalRemoved(o, after) ==
    \E t \in isterminal(o) : o.ids[t] \notin Range(after.ids)

\* C8: once a basin raster is saved it stays saved, the same array with the
\* same values, over every call that removes no terminal segment (queries,
\* locate_basins, keep, remove); a keep or remove that removes a terminal
\* segment drops it; locate_basins, isnested and raster(basins=True) leave
\* a raster saved.
C8_CacheLifecycle ==
    [][\A h \in DOMAIN objs :
        /\ located_basins(objs[h]) =>
              IF TerminalRemoved(objs[h], objs'[h])
              THEN ~located_basins(objs'[h])
              ELSE /\ objs'[h].basins = objs[h].basins
                   /\ arrays'[objs[h].basins] = arrays[objs[h].basins]
        /\ (last'.h = h /\ last'.op \in {"locate_basins", "isnested", "raster"})
              => located_basins(objs'[h])
    ]_vars

\* a removal of segments, none of them terminal, kept the saved raster
C8_Witness ==
    /\ last.op = "remove"
    /\ last.sel # {}
    /\ located_basins(objs[1])

\* the terminals whose basin contains pixel p
TerminalsOver(n, o, ls, p) ==
    {t \in isterminal(o) : p \in catchment(n, segment_outlet(o, ls, t))}

\* terminal t is downstream of (or is) every terminal of the set T
FurthestDownstream(n, o, ls, t, T) ==
    \A u \in T :
        segment_outlet(o, ls, u) \in catchment(n, segment_outlet(o, ls, t))

Labelled(n, o, ls, raster) ==
    \A p \in Pixels(n) :
        LET T == TerminalsOver(n, o, ls, p)
        IN IF T = {} THEN raster[p] = 0
           ELSE \E t \in T : /\ raster[p] = o.ids[t]
                             /\ FurthestDownstream(n, o, ls, t, T)

\* terminal a's outlet lies in the basin of the other terminal b
Nested(n, o, ls, a, b) ==
    /\ a # b
    /\ segment_outlet(o, ls, a) \in catchment(n, segment_outlet(o, ls, b))

\* C10: in a basin raster just built, every pixel draining to the outlet of
\* some terminal holds the ID of the furthest-downstream terminal whose basin
\* contains it and every other pixel holds 0; so the basin of a terminal A
\* nested in B, with no terminal further downstream, holds B's ID.
C10_BasinLabels ==
    (last.op \in {"locate_basins", "isnested", "raster"} /\ last.built) =>
        LET o == objs[last.h]
            raster == arrays[o.basins]
        IN /\ Labelled(net, o, lists, raster)
           /\ \A a \in isterminal(o), b \in isterminal(o) :
                 (/\ Nested(net, o, lists, a, b)
                  /\ \A c \in isterminal(o) : ~Nested(net, o, lists, b, c))
                   => \A p \in catchment(net, segment_outlet(o, lists, a)) :
                         raster[p] = o.ids[b]

\* a raster was just built for a network in which a terminal is nested in
\* another terminal whose ID is lower
C10_Witness ==
    /\ last.op \in {"locate_basins", "isnested", "raster"}
    /\ last.built
    /\ \E a \in isterminal(objs[1]), b \in isterminal(objs[1]) :
          /\ Nested(net, objs[1], lists, a, b)
          /\ objs[1].ids[a] > objs[1].ids[b]

\* C9: the raster saved by the parallel build equals the raster of the
\* serial build, for any number of workers, any split of the terminals and
\* any interleaving; while the workers run, a step changes the buffer of
\* one worker only and no saved raster.
C9_ParallelEquivalence ==
    /\ [](last.op = "locate_basins_parallel" =>
            arrays[objs[last.h].basins]
              = built_sequentially(net, objs[last.h], lists))
    /\ [][(par.phase = "running" /\ par'.phase = "running") =>
            /\ arrays' = arrays
            /\ objs' = objs
            /\ Cardinality({w \in DOMAIN par.bufs :
                              par'.bufs[w] # par.bufs[w]}) <= 1]_vars

\* a parallel build with two busy workers finished on a network where a
\* terminal is nested in a terminal of lower ID
C9_Witness ==
    /\ last.op = "locate_basins_parallel"
    /\ Cardinality(last.sel) >= 2
    /\ \E a \in isterminal(objs[1]), b \in isterminal(objs[1]) :
          /\ Nested(net, objs[1], lists, a, b)
          /\ objs[1].ids[a] > objs[1].ids[b]

\* position i's terminal has its outlet inside the basin of another terminal
InNestedNetwork(n, o, ls, i) ==
    \E b \in isterminal(o) : Nested(n, o, ls, terminus(o, i), b)

\* C11: isnested marks a segment exactly when the outlet pixel of its
\* terminal lies inside the basin of a different terminal; every segment has
\* the value of its terminal; and of two terminals A, B with A's outlet in
\* B's catchment (B in no other basin), A is marked and B is not.
C11_IsNested ==
    last.op = "isnested" =>
        LET o == objs[last.h]
        IN /\ last.ret = {i \in All(o) : InNestedNetwork(net, o, lists, i)}
           /\ \A i \in All(o) : (i \in last.ret) <=> (terminus(o, i) \in last.ret)
           /\ \A a \in isterminal(o), b \in isterminal(o) :
                 (/\ Nested(net, o, lists, a, b)
                  /\ \A c \in isterminal(o) : ~Nested(net, o, lists, b, c))
                   => (a \in last.ret /\ b \notin last.ret)

\* isnested answered for a network with a nested local network of several
\* segments and a local network that is not nested
C11_Witness ==
    /\ last.op = "isnested"
    /\ \E i \in last.ret : objs[1].child[i] # NoSegment
    /\ \E t \in isterminal(objs[1]) : t \notin last.ret

\* C12: in every state (after construction and after any keep / remove) the
\* npixels of each segment is the number of pixels of the catchment of the
\* segment's outlet pixel, the outlet included.
C12_NPixels ==
    \A i \in All(objs[1]) :
        objs[1].npixels[i]
          = Cardinality(catchment(net, segment_outlet(objs[1], lists, i)))

\* segments were removed and the remaining ones have different catchments
C12_Witness ==
    /\ last.op \in {"remove", "keep"}
    /\ last.sel # {}
    /\ size(objs[1]) >= 2
    /\ size(objs[1]) < Len(Lines(net))
    /\ objs[1].npixels[1] # objs[1].npixels[2]

\* C13: every pixel of every segment's pixel list is a mask-True pixel; the
\* mask-False pixel at which a polyline ends belongs to no segment.
C13_PixelsInMask ==
    \A i \in All(objs[1]) :
        \A k \in DOMAIN lists[objs[1].indices[i]] :
            lists[objs[1].indices[i]][k] \in Mask(net)

\* a network just built in which a polyline ends at a mask-False pixel
C13_Witness ==
    /\ last.op = "init"
    /\ \E i \in All(objs[1]) :
          /\ rowcol(Last(objs[1].segments[i])) \notin Mask(net)
          /\ lists[objs[1].indices[i]] # <<>>

\* C14: in every state (after construction and after any keep / remove) the
\* polyline of every non-terminal segment ends at the coordinate where the
\* polyline of its child starts.
C14_ChildStartsAtEnd ==
    \A i \in All(objs[1]) :
        objs[1].child[i] # NoSegment =>
            Last(objs[1].segments[i]) = objs[1].segments[objs[1].child[i]][1]

\* segments were removed, and a segment that has moved to another position
\* of the arrays still has a child
C14_Witness ==
    /\ last.op \in {"remove", "keep", "remove_continuous"}
    /\ \E i \in All(objs[1]) :
          /\ objs[1].child[i] # NoSegment
          /\ objs[1].ids[i] # i

\* C15: in a network just built, the parents recorded for a segment are
\* exactly the segments whose polyline ends where its polyline starts, each
\* of them has it as child, and a confluence of more than two tributaries
\* loses none: every row of the parents table has the same width, at least
\* 2, holding the parents once each and -1 elsewhere.
C15_ParentsAtConstruction ==
    last.op = "init" =>
        LET o == objs[1]
        IN \A s \in All(o) :
              LET ends_here == {p \in All(o) : Last(o.segments[p]) = o.segments[s][1]}
              IN /\ Range(get_parents(o, s)) = ends_here
                 /\ Len(get_parents(o, s)) = Cardinality(ends_here)
                 /\ \A p \in ends_here : o.child[p] = s
                 /\ Len(o.parents[s]) = Len(o.parents[1])
                 /\ Len(o.parents[s]) >= 2
                 /\ Range(o.parents[s]) \subseteq ends_here \cup {NoSegment}

\* a network just built with a confluence of three tributaries and, in the
\* same table, a segment without parents
C15_Witness ==
    /\ last.op = "init"
    /\ \E s \in All(objs[1]) : Len(get_parents(objs[1], s)) = 3
    /\ \E s \in All(objs[1]) :
          /\ get_parents(objs[1], s) = <<>>
          /\ Len(objs[1].parents[s]) = 3

\* following child from position i for at most fuel steps ends at a terminal
RECURSIVE ReachesTerminal(_, _, _)
ReachesTerminal(o, i, fuel) ==
    IF o.child[i] = NoSegment THEN TRUE
    ELSE IF fuel = 0 THEN FALSE
    ELSE ReachesTerminal(o, o.child[i], fuel - 1)

WellFormed(o) ==
    /\ Len(o.child) = size(o)
    /\ Len(o.parents) = size(o)
    /\ \A i \in All(o) :
          /\ o.child[i] \in All(o) \cup {NoSegment}
          /\ Range(o.parents[i]) \subseteq All(o) \cup {NoSegment}
    /\ \A i \in All(o), j \in All(o) :
          (o.child[i] = j) <=> (i \in Range(get_parents(o, j)))
    /\ \A i \in All(o) : ReachesTerminal(o, i, size(o))
    /\ nlocal(o) = Cardinality({i \in All(o) : o.child[i] = NoSegment})
    /\ Len(terminal_ids(o)) = nlocal(o)

\* C16: in every state reached by keep, remove and copy calls, for every
\* object: j is the child of i exactly when i is among the parents of j,
\* every entry other than -1 is a position of the network, following child
\* always ends at a terminal (no cycle), and nlocal is the number of
\* segments without child and the length of terminal_ids.
C16_WellFormedGraph ==
    \A h \in DOMAIN objs : WellFormed(objs[h])

\* after a copy, a removal left a confluence that still has several parents
\* in a network whose positions have been renumbered
C16_Witness ==
    /\ cvar # 0
    /\ last.op = "remove"
    /\ LET o == objs[last.h]
       IN /\ size(o) < Len(Lines(net))
          /\ \E j \in All(o) : /\ Len(get_parents(o, j)) >= 2
                                /\ o.ids[j] # j

\* C17: a network just built has the IDs 1..N in order; in every state the
\* IDs are strictly increasing (unique, in their original order) and each
\* ID denotes the polyline, the pixel list and the npixels value that the
\* constructor gave to it.
C17_StableIds ==
    LET o == objs[1]
        built == Segments_init(net)
    IN /\ last.op = "init" => o.ids = [i \in 1 .. Len(Lines(net)) |-> i]
       /\ \A i \in All(o), j \in All(o) : i < j => o.ids[i] < o.ids[j]
       /\ \A i \in All(o) :
             /\ o.ids[i] \in 1 .. Len(Lines(net))
             /\ o.segments[i] = built.segments[o.ids[i]]
             /\ lists[o.indices[i]] = init_lists(net)[built.indices[o.ids[i]]]
             /\ o.npixels[i] = built.npixels[o.ids[i]]

\* after a removal, a surviving segment is at a position other than its ID
C17_Witness ==
    /\ last.op \in {"remove", "keep", "remove_continuous"}
    /\ size(objs[1]) >= 2
    /\ \E i \in All(objs[1]) : objs[1].ids[i] > i + 1

\* C18: a traversal (termini, descendents, ancestors) never runs through
\* its loop more often than the network has segments, whatever the child
\* table, one with a cycle included: by then it has stopped and reported the
\* malformed graph.
C18_BoundedTraversals ==
    Walking => par.iterations <= size(objs[1])

\* the last pixel of the pixel list of the segment at position i
LastPixel(o, ls, i) == ls[o.indices[i]][Len(ls[o.indices[i]])]

\* the terminal position that position i drains to
DrainsTo(o, i) ==
    CHOOSE t \in descendents(o, i) \cup {i} : o.child[t] = NoSegment

\* C19: summary("outlet", v) gives for every segment the value of v at the
\* last pixel of the segment's pixel list, or NaN when that pixel holds the
\* NoData value; outlets(segment_outlets=True) gives that pixel, and the
\* default outlets() gives the last pixel of the terminal segment that the
\* segment drains to.
C19_OutletLaw ==
    LET o == objs[1]
    IN /\ (last.op = "summary" /\ last.arg = "outlet") =>
             \A i \in All(o) :
                LET x == last.values.values[LastPixel(o, lists, i)]
                IN last.ret[i] =
                     IF IsNodata(x, last.values.nodata) THEN NaN ELSE x
       /\ last.op = "outlets" =>
             \A i \in All(o) :
                last.ret[i] =
                  IF last.arg THEN LastPixel(o, lists, i)
                  ELSE LastPixel(o, lists, DrainsTo(o, i))

\* the outlet values of a network of several segments, one of them NoData
\* at its outlet and so NaN, another a number
C19_Witness ==
    /\ last.op = "summary"
    /\ ~last.values.nodata.nan
    /\ \E i \in All(objs[1]), j \in All(objs[1]) :
          /\ last.values.values[LastPixel(objs[1], lists, i)] = last.values.nodata
          /\ last.ret[i] = NaN
          /\ ~last.ret[j].nan
          /\ objs[1].child[j] # NoSegment

\* the same number: both NaN, or equal quotients
SameFloat(a, b) ==
    /\ a.nan = b.nan
    /\ ~a.nan => a.num * b.den = b.num * a.den

RECURSIVE Total(_, _)
Total(raster, S) ==
    IF S = {} THEN 0
    ELSE LET p == CHOOSE x \in S : TRUE
         IN raster.values[p].num + Total(raster, S \ {p})

\* what the policy asks of the mean and sum of one basin: selected are the
\* pixels of the catchment that the mask leaves, valid those holding neither
\* NoData nor NaN
SumPolicy(statistic, raster, selected, x) ==
    LET valid == {p \in selected : ~filled(raster, p).nan}
    IN /\ statistic \in {"sum", "mean"} =>
             IF valid # selected \/ selected = {} THEN x.nan
             ELSE SameFloat(x, [nan |-> FALSE, num |-> Total(raster, selected),
                                den |-> IF statistic = "sum" THEN 1
                                        ELSE Cardinality(selected)])
       /\ statistic \in {"nansum", "nanmean"} =>
             IF valid = {} THEN x.nan
             ELSE SameFloat(x, [nan |-> FALSE, num |-> Total(raster, valid),
                                den |-> IF statistic = "nansum" THEN 1
                                        ELSE Cardinality(valid)])

\* the basins of the latest catchment_summary call, as positions
SummaryIds ==
    IF last.terminal THEN SetToSeq(isterminal(objs[1]))
    ELSE [i \in All(objs[1]) |-> i]

\* the pixels of the k-th basin that the mask of the latest call leaves
Selected(k) ==
    LET basin == catchment(net, LastPixel(objs[1], lists, SummaryIds[k]))
    IN IF last.mask.given THEN basin \cap last.mask.true ELSE basin

\* the values [[1, NoData, 3], [4, 5, 6], [7, 8, 9]] over the three columns
SouthExample ==
    /\ net = "south"
    /\ size(objs[1]) = 3
    /\ last.op = "catchment_summary"
    /\ last.values = ValuesRaster("south", Float(0), <<0, 1>>, NoPixel)
    /\ ~last.mask.given
    /\ ~last.terminal

SumsAndExample ==
    /\ DOMAIN last.ret = DOMAIN SummaryIds
    /\ \A k \in DOMAIN SummaryIds :
          SumPolicy(last.arg, last.values, Selected(k), last.ret[k])
    /\ (SouthExample /\ last.arg = "mean") =>
          /\ SameFloat(last.ret[1], [nan |-> FALSE, num |-> 1 + 4 + 7, den |-> 3])
          /\ last.ret[2].nan
    /\ (SouthExample /\ last.arg = "nanmean") =>
          SameFloat(last.ret[2], [nan |-> FALSE, num |-> 5 + 8, den |-> 2])

C21_AccumulationLaw ==
    (last.op = "catchment_summary"
       /\ last.arg \in {"sum", "mean", "nansum", "nanmean"}) =>
        LET iterated == catchment_summary_iterated(
                            net, objs[1], lists, last.arg, last.values,
                            last.mask, last.terminal)
        IN /\ DOMAIN last.ret = DOMAIN iterated
           /\ \A k \in DOMAIN iterated : SameFloat(last.ret[k], iterated[k])

\* a mean under a mask over several basins: one basin of several mask-True
\* pixels has a number, another basin is NaN
C21_Witness ==
    /\ last.op = "catchment_summary"
    /\ last.arg = "mean"
    /\ last.mask.given
    /\ \E k \in DOMAIN last.ret : ~last.ret[k].nan /\ last.ret[k].den >= 2
    /\ \E k \in DOMAIN last.ret : last.ret[k].nan

\* C22: the constructor raises the missing-CRS error when the flow raster
\* has no CRS, the missing-transform error when it has a CRS and no
\* transform, and a ValueError naming both lengths when max_length is
\* smaller than the pixel diagonal; max_length equal to the diagonal is
\* accepted; whenever it raises, no network was delineated and there is no
\* object, and it raises in no other case.
C22_ConstructorValidation ==
    last.op = "Segments" =>
        /\ last.stage \in {"raised", "done"} =>
              /\ (last.raised = "MissingCRSError") <=> ~last.crs
              /\ (last.raised = "MissingTransformError")
                    <=> (last.crs /\ ~last.transform)
              /\ (last.raised = "ValueError")
                    <=> (last.crs /\ last.transform
                           /\ last.max_length < last.pixel_diagonal)
              /\ last.raised = "ValueError"
                    => last.message = <<last.max_length, last.pixel_diagonal>>
              /\ (last.crs /\ last.transform
                    /\ last.max_length = last.pixel_diagonal)
                    => last.stage = "done"
              /\ (last.stage = "done") <=> (last.raised = "none")
        /\ (DOMAIN objs # {}) <=> (last.stage = "done")
        /\ last.stage # "done" => lists = <<>>

\* an object was built with max_length equal to the pixel diagonal
C22_Witness ==
    /\ last.op = "Segments"
    /\ last.stage = "done"
    /\ last.max_length = last.pixel_diagonal
    /\ DOMAIN objs = {1}

\* C23: for validated max_job_time and refresh_rate (both at least 15
\* seconds, refresh_rate at most 3600), the time download has spent in the
\* refresh_rate sleeps of _execute_job never exceeds max_job_time seconds,
\* and LFPSJobTimeoutError is raised only for a job that has not succeeded.
C23_WaitBounded ==
    (last.op = "download" /\ last.max_job_time # None
       /\ max_job_time_valid(last.max_job_time)
       /\ refresh_rate_valid(last.refresh_rate)) =>
        /\ last.waited <= last.max_job_time
        /\ last.raised = "LFPSJobTimeoutError" => last.status # "Succeeded"

\* C24: _execute_job sleeps refresh_rate before each status query and
\* queries again only after a running status (Pending or Executing); on
\* Succeeded it returns the response's download URL and neither sleeps nor
\* queries again; on Canceled or Failed it raises InvalidLFPSJobError with
\* the job id; on any other status it raises a DataAPIError; a response
\* with success == False raises before the status is read, a ValueError
\* when its message is "JobId not found".
C24_Step ==
    /\ last'.queries # last.queries =>
          LET info == last'.info
          IN /\ last'.queries = last.queries + 1
             /\ last.sleeps = last'.queries
             /\ last.waited = last.refresh_rate * last'.queries
             /\ last.queries > 0 => last.status \in {"Pending", "Executing"}
             /\ info.success = "False" =>
                   /\ last'.pc = "raised"
                   /\ last'.status = ""
                   /\ (last'.raised = "ValueError")
                         <=> (info.message = "JobId not found")
             /\ (info.error = "none" /\ info.success # "False") =>
                   /\ last'.status = info.status
                   /\ info.status \in {"Pending", "Executing"} =>
                         (last'.pc = "while" /\ last'.raised = "none")
                   /\ (info.status = "Succeeded" /\ info.outputFile # "") =>
                         /\ last'.pc = "content"
                         /\ last'.ret = info.outputFile
                         /\ last'.raised = "none"
                   /\ info.status \in {"Canceled", "Failed"} =>
                         /\ last'.raised = "InvalidLFPSJobError"
                         /\ last'.raised_id = last.id
                   /\ info.status \notin {"Pending", "Executing", "Succeeded",
                                           "Canceled", "Failed"} =>
                         /\ last'.pc = "raised"
                         /\ "DataAPIError" \in Bases(last'.raised)
    /\ last.status = "Succeeded" =>
          (last'.queries = last.queries /\ last'.sleeps = last.sleeps)
    /\ last.pc = "raised" =>
          (last'.queries = last.queries /\ last'.sleeps = last.sleeps)

C25_FailedDownload ==
    [][(last.op = "download" /\ last'.op = "download") =>
         /\ last'.pc = "raised" => last'.path = last'.before
         /\ (last'.pc = "raised" /\ last'.before = "exists") =>
               (last'.raised = "FileExistsError" /\ last'.submits = 0)
         /\ last'.before = "exists" => last'.submits = 0
         /\ last'.path # last.path =>
               /\ last.status = "Succeeded"
               /\ last.temp = "extracted"
               /\ last.before = "absent"
               /\ last'.path = "data"
               /\ last'.pc = "done"]_vars

\* C25, with the error of an existing path either FileExistsError or, for
\* an invalid layer, the error of the layer, which is checked first.
C25_FailedDownloadLayerFirst ==
    [][(last.op = "download" /\ last'.op = "download") =>
         /\ last'.pc = "raised" => last'.path = last'.before
         /\ (last'.pc = "raised" /\ last'.before = "exists") =>
               /\ last'.raised = IF last'.layer = "240EVT;240EVC"
                                 THEN "ValueError" ELSE "FileExistsError"
               /\ last'.submits = 0
         /\ last'.before = "exists" => last'.submits = 0
         /\ last'.path # last.path =>
               /\ last.status = "Succeeded"
               /\ last.temp = "extracted"
               /\ last.before = "absent"
               /\ last'.path = "data"
               /\ last'.pc = "done"]_vars

\* a download failed on a job timeout and its path is still absent
C25_Witness ==
    /\ last.op = "download"
    /\ last.pc = "raised"
    /\ last.raised = "LFPSJobTimeoutError"
    /\ last.before = "absent"
    /\ last.path = "absent"

PixelSet(i) ==
    {lists[objs[1].indices[i]][k] : k \in DOMAIN lists[objs[1].indices[i]]}

\* the number of leading coordinates of polyline i that its pixel list skips
Skipped(i) ==
    Len(objs[1].segments[i]) - 1 - Len(lists[objs[1].indices[i]])

SamePixel(a, b) == rowcol(a) = rowcol(b)

\* C26: after construction the pixel lists of the segments are pairwise
\* disjoint and the stream raster holds each segment's ID at exactly its
\* pixels; each list is the pixels of the polyline's coordinates without
\* the last one, and without the first one exactly when the first two
\* coordinates fall in one pixel or the last two of the previous polyline
\* did; the pixel of the coordinate where a segment meets its child is in
\* the list of exactly one of the two.
C26_SplitPixelRule ==
    last.op = "init" =>
        LET o == objs[1]
            raster == segments_raster(net, o, lists, size(o))
        IN /\ \A i, j \in All(o) : i # j => PixelSet(i) \cap PixelSet(j) = {}
           /\ \A i \in All(o) :
                 {p \in DOMAIN raster : raster[p] = o.ids[i]} = PixelSet(i)
           /\ \A i \in All(o) :
                 LET coords == o.segments[i]
                     n == Len(coords)
                 IN /\ Skipped(i) \in {0, 1}
                    /\ \A k \in DOMAIN lists[o.indices[i]] :
                          lists[o.indices[i]][k]
                              = rowcol(coords[k + Skipped(i)])
                    /\ (Skipped(i) = 1) <=>
                          \/ SamePixel(coords[1], coords[2])
                          \/ /\ i > 1
                             /\ SamePixel(Last(o.segments[i - 1]),
                                          o.segments[i - 1][Len(o.segments[i - 1]) - 1])
           /\ \A i \in All(o) :
                 o.child[i] # NoSegment =>
                     LET p == rowcol(Last(o.segments[i]))
                     IN (p \in PixelSet(i)) # (p \in PixelSet(o.child[i]))

\* a network just built from a run split in pieces, where a piece starts in
\* the pixel its upstream piece ends in
C26_Witness ==
    /\ last.op = "init"
    /\ \E i \in All(objs[1]) :
          /\ Skipped(i) = 1
          /\ ~SamePixel(objs[1].segments[i][1], objs[1].segments[i][2])
    /\ \E i \in All(objs[1]) :
          /\ Skipped(i) = 1
          /\ SamePixel(objs[1].segments[i][1], objs[1].segments[i][2])

\* C27: no step of a continuous() call, for any selection and flags,
\* changes the network (segments, ids, indices, npixels, child, parents,
\* saved basins) or the pixel lists or rasters; so the call returns what
\* it would return on the network as it was before, and the network a
\* later query or filter sees is the one the call found.
C27_ContinuousPure ==
    [][(par.phase = "continuous" \/ par'.phase = "continuous") =>
         /\ objs' = objs
         /\ arrays' = arrays
         /\ lists' = lists
         /\ last'.op = "continuous" /\ par'.phase = "idle" =>
               last'.ret = continuous(objs'[last'.h], last'.sel, last'.remove,
                                      last'.keep_upstream,
                                      last'.keep_downstream)]_vars

\* a continuous() call returned after cutting links in its working tables,
\* on a network that has a saved basin raster
C27_Witness ==
    /\ last.op = "continuous"
    /\ par.phase = "idle"
    /\ last.ret # {}
    /\ last.remove
    /\ \E i \in last.ret : objs[last.h].child[i] # NoSegment
    /\ objs[last.h].basins # None

\* the ID at position i of o, or NoSegment
IdAt(o, i) == IF i = NoSegment THEN NoSegment ELSE o.ids[i]

\* what C28 compares: IDs, polylines, pixel lists, npixels, and the child
\* and the parents of every segment as IDs
Network(o) ==
    [ ids      |-> o.ids,
      segments |-> o.segments,
      pixels   |-> [i \in All(o) |-> lists[o.indices[i]]],
      npixels  |-> o.npixels,
      child    |-> [i \in All(o) |-> IdAt(o, o.child[i])],
      parents  |-> [i \in All(o) |->
                     {IdAt(o, o.parents[i][k]) : k \in DOMAIN o.parents[i]}
                         \ {NoSegment}] ]

\* C28: for ID sets A and B of a network, remove(A) then remove(B minus A),
\* remove(B) then remove(A minus B), and remove(A union B) give the same
\* network; keep(S) gives the network that remove of the other IDs gives.
C28_RemovalsCommute ==
    /\ (par.phase = "compose" /\ par.todo = <<<<>>, <<>>, <<>>>>) =>
          /\ Network(objs[1]) = Network(objs[3])
          /\ Network(objs[2]) = Network(objs[3])
    /\ (par.phase = "keep" /\ par.todo = <<<<>>, <<>>>>) =>
          Network(objs[1]) = Network(objs[2])

\* the three ways are complete for A and B neither of which holds the other,
\* on a network that had lost a segment before, and a surviving segment has
\* lost its child
C28_Witness ==
    /\ par.phase = "compose"
    /\ par.todo = <<<<>>, <<>>, <<>>>>
    /\ par.A \ par.B # {}
    /\ par.B \ par.A # {}
    /\ Cardinality(par.A \cup par.B \cup Range(objs[3].ids)) < Len(Lines(net))
    /\ \E i \in All(objs[3]) :
          /\ objs[3].child[i] = NoSegment
          /\ init_child(Lines(net))[objs[3].ids[i]] # NoSegment

\* C29: whenever an object has a saved basin raster, that raster is the one
\* a fresh build on the object's current network produces: after any keep
\* and remove calls that retained it, removals of interior segments among
\* them, and for copies that share it.
C29_CacheCoherent ==
    \A h \in DOMAIN objs :
        objs[h].basins # None =>
            arrays[objs[h].basins] = built_sequentially(net, objs[h], lists)

\* an object and its copy share a saved raster, and one of them has since
\* lost an interior segment, whose parent is now terminal
C29_Witness ==
    /\ DOMAIN objs = {1, 2}
    /\ objs[1].basins # None
    /\ objs[1].basins = objs[2].basins
    /\ \E h \in {1, 2} :
          /\ size(objs[h]) < size(objs[3 - h])
          /\ \E i \in isterminal(objs[h]) :
                init_child(Lines(net))[objs[h].ids[i]] # NoSegment

\* C30: validate.matrix takes a 1D input of N elements as a 1xN matrix: the
\* array returned has shape (1, N), and a required shape is checked
\* against (1, N).
C30_VectorIsRow ==
    (last.op = "matrix" /\ Len(last.input) = 1 /\ last.input[1] > 0) =>
        /\ last.pc = "returned" => last.shape = <<1, last.input[1]>>
        /\ last.pc \in {"returned", "raised"} =>
              ((last.raised = "ShapeError")
                 <=> shape_error(last.required, <<1, last.input[1]>>))

====
